---- MODULE Spec2Model ----
(***************************************************************************)
(* A model of the stateless-client block-witness engine of turbo-geth:     *)
(* the witness builder (trie/proof_generator.go), the streaming resolver   *)
(* (trie/resolver.go) and the hash-builder driver of the structural tests. *)
(*                                                                         *)
(* Hashes are symbolic: Keccak256 of an RLP item e is the term             *)
(* [t |-> "h", of |-> e], so two hashes are equal exactly when their       *)
(* preimages are.  RLP items are terms too, with their byte length         *)
(* computed by the RLP rules, so the 32-byte "embedded or hashed"          *)
(* threshold is decided as the code decides it.                            *)
(***************************************************************************)
EXTENDS Integers, Sequences, FiniteSets, TLC

VARIABLES
    \* ---- witness builder (proof_generator.go)
    wphase,     \* "init" | "built" | "replayed" | "written" | "loaded"
    t,          \* the trie handed to MakeBlockWitness: [root |-> node]
    rs,         \* the resolve set: a set of hex keys (with terminator)
    bwb,        \* the BlockWitnessBuilder: the five tapes (and the visit log)
    rp,         \* the replay of the structure tape: cursors, stack, flags
    bw,         \* the bytes WriteTo produced: header and five bodies
    loaded,     \* what BlockWitnessToTrie returned
    \* ---- streaming resolver (resolver.go)
    rphase,     \* "new" | "prepared" | "walking" | "returned"
    tr,         \* the TrieResolver, its requests included
    rt,         \* the root of the trie the requests were made for (req.t.root)
    rdb,        \* the bucket walked: a set of [k |-> key bytes, v |-> value bytes]
    rpend,      \* the requests the caller has still to add
    rparams,    \* what PrepareResolveParams returned: startkeys, fixedbits
    rwalk,      \* the pairs MultiWalk has still to hand to Walker
    rerr,       \* what ResolveWithDb returned: "nil", an error, or "panic"
    rpool,      \* the hasher pool: hashers taken and not returned, returns
    \* ---- hash builder driven by the (prec, curr, succ) window
    hphase,     \* "update" | "feed" | "flush" | "done"
    hin,        \* the input: sorted keys, their values, the resolve set
    htr,        \* the reference trie the pairs are inserted into
    hi,         \* how many keys the running loop has consumed
    hw,         \* the window and the groups: prec, curr, succ, groups
    hb,         \* the HashBuilder: its key and value, and its node stack
    \* ---- the account codec (core/types/accounts/account.go)
    aphase,     \* "new" | "encoded" | "panicked" | "decoded"
    acct,       \* the account a and the enableStorageSize flag
    aenc,       \* what a.Encode returned
    adec,       \* what Decode of these bytes returned: the error, the account
    \* ---- the code sets of the ProofGenerator (proof_generator.go)
    pg,         \* the ProofGenerator: proofCodes and createdCodes
    pglog,      \* the calls made on it, in order
    pgcodes,    \* the codes of the BlockProof returned last
    \* ---- DoCall (turbo/transactions/call.go)
    dpc,        \* where DoCall is: "entered" ... "returned"
    dctx,       \* the context: whether it was made, whether Done is closed
    dwatch,     \* the goroutine DoCall starts: "none" | "waiting" | "woken" | "done"
    devm,       \* the EVM: its abort flag
    dapplied,   \* what core.ApplyMessage returned: result and error
    dret,       \* what DoCall returned, and what evm.Cancelled() gave it
    \* ---- amending and applying a proof (proof_generator.go)
    mphase,     \* "new" | "amended" | "applied"
    mtrie,      \* t.root
    mproof,     \* the proof, and the hexes timeFunc puts before cuttime
    mamended,   \* what AmmendProofs returned
    mapplied    \* what ApplyProof returned, and what went wrong in it

wvars == <<wphase, t, rs, bwb, rp, bw, loaded>>
rvars == <<rphase, tr, rt, rdb, rpend, rparams, rwalk, rerr, rpool>>
hvars == <<hphase, hin, htr, hi, hw, hb>>
avars == <<aphase, acct, aenc, adec>>
gvars == <<pg, pglog, pgcodes>>
dvars == <<dpc, dctx, dwatch, devm, dapplied, dret>>
mvars == <<mphase, mtrie, mproof, mamended, mapplied>>
ovars == <<gvars, dvars, mvars>>
vars == <<wvars, rvars, hvars, avars, ovars>>

\* a subsystem that takes no part in a specification rests in these values
WIdle ==
    /\ wphase = "idle" /\ t = <<>> /\ rs = {} /\ bwb = <<>> /\ rp = <<>>
    /\ bw = <<>> /\ loaded = <<>>
RIdle ==
    /\ rphase = "idle" /\ tr = <<>> /\ rt = <<>> /\ rdb = {} /\ rpend = <<>>
    /\ rparams = <<>> /\ rwalk = <<>> /\ rerr = "nil" /\ rpool = <<>>
HIdle ==
    /\ hphase = "idle" /\ hin = <<>> /\ htr = <<>> /\ hi = 0 /\ hw = <<>>
    /\ hb = <<>>
AIdle == aphase = "idle" /\ acct = <<>> /\ aenc = <<>> /\ adec = <<>>
GIdle == pg = <<>> /\ pglog = <<>> /\ pgcodes = <<>>
DIdle ==
    /\ dpc = "idle" /\ dctx = <<>> /\ dwatch = "none" /\ devm = <<>>
    /\ dapplied = <<>> /\ dret = <<>>
MIdle ==
    /\ mphase = "idle" /\ mtrie = <<>> /\ mproof = <<>> /\ mamended = <<>>
    /\ mapplied = <<>>
OIdle == GIdle /\ DIdle /\ MIdle

(***************************************************************************)
(* Sequences, nibbles, bytes                                               *)
(***************************************************************************)
Last(s) == s[Len(s)]
Front(s) == SubSeq(s, 1, Len(s) - 1)
Drop(s, n) == SubSeq(s, n + 1, Len(s))
Take(s, n) == SubSeq(s, 1, n)

Min2(a, b) == IF a < b THEN a ELSE b
Max2(a, b) == IF a > b THEN a ELSE b

RECURSIVE SumSeq(_)
SumSeq(s) == IF s = <<>> THEN 0 ELSE s[1] + SumSeq(Tail(s))

RECURSIVE Flatten(_)
Flatten(ss) == IF ss = <<>> THEN <<>> ELSE ss[1] \o Flatten(Tail(ss))

\* a is a prefix of b (bytes.HasPrefix(b, a))
HasPrefix(b, a) == Len(a) <= Len(b) /\ SubSeq(b, 1, Len(a)) = a

\* lexicographic comparison of two sequences of numbers (bytes.Compare)
RECURSIVE Compare(_, _)
Compare(a, b) ==
    IF a = <<>> /\ b = <<>> THEN 0
    ELSE IF a = <<>> THEN -1
    ELSE IF b = <<>> THEN 1
    ELSE IF a[1] < b[1] THEN -1
    ELSE IF a[1] > b[1] THEN 1
    ELSE Compare(Tail(a), Tail(b))

\* length of the common prefix of a and b
RECURSIVE prefixLen(_, _)
prefixLen(a, b) ==
    IF a = <<>> \/ b = <<>> \/ a[1] # b[1] THEN 0
    ELSE 1 + prefixLen(Tail(a), Tail(b))

\* the set S as an ascending sequence under Compare
RECURSIVE SortSeqs(_)
SortSeqs(S) ==
    IF S = {} THEN <<>>
    ELSE LET m == CHOOSE x \in S : \A y \in S : Compare(x, y) <= 0
         IN <<m>> \o SortSeqs(S \ {m})

\* key bytes to nibbles, high nibble first, followed by the terminator 16
RECURSIVE keyNibbles(_)
keyNibbles(key) ==
    IF key = <<>> THEN <<>>
    ELSE <<key[1] \div 16, key[1] % 16>> \o keyNibbles(Tail(key))

keybytesToHex(key) == keyNibbles(key) \o <<16>>

hasTerm(hex) == Len(hex) > 0 /\ Last(hex) = 16

\* nibbles (even count) to bytes
RECURSIVE decodeNibbles(_)
decodeNibbles(nibbles) ==
    IF Len(nibbles) < 2 THEN <<>>
    ELSE <<nibbles[1] * 16 + nibbles[2]>> \o decodeNibbles(Drop(nibbles, 2))

hexToKeybytes(hex) ==
    decodeNibbles(IF hasTerm(hex) THEN Front(hex) ELSE hex)

\* first byte (terminator << 5) | (odd << 4) | first nibble if odd
hexToCompact(hex) ==
    LET term == IF hasTerm(hex) THEN 1 ELSE 0
        h == IF hasTerm(hex) THEN Front(hex) ELSE hex
        odd == Len(h) % 2
    IN IF odd = 1
       THEN <<term * 32 + 16 + h[1]>> \o decodeNibbles(Tail(h))
       ELSE <<term * 32>> \o decodeNibbles(h)

compactToHex(compact) ==
    LET base0 == keybytesToHex(compact)
        base == IF base0[1] < 2 THEN Front(base0) ELSE base0
        chop == 2 - (base[1] % 2)
    IN Drop(base, chop)

(***************************************************************************)
(* RLP items and Keccak256, symbolically                                   *)
(***************************************************************************)
RStr(b) == [t |-> "s", b |-> b]                  \* a byte string
RList(items) == [t |-> "l", items |-> items]      \* a list
RWrap(e) == [t |-> "w", of |-> e]                 \* the encoding of e, as a byte string
Keccak(e) == [t |-> "h", of |-> e]                \* 32 bytes
RawBytes(b) == [t |-> "raw", b |-> b]              \* bytes hashed as they are

\* big-endian bytes of n without leading zeros (0 is the empty string)
RECURSIVE MinBytes(_)
MinBytes(n) == IF n = 0 THEN <<>> ELSE MinBytes(n \div 256) \o <<n % 256>>

RUint(n) == RStr(MinBytes(n))

RlpHeaderLen(payload) ==
    IF payload <= 55 THEN 1 ELSE 1 + Len(MinBytes(payload))

RECURSIVE RlpLen(_)
RlpLen(e) ==
    CASE e.t = "s" ->
            IF Len(e.b) = 1 /\ e.b[1] < 128 THEN 1
            ELSE RlpHeaderLen(Len(e.b)) + Len(e.b)
      [] e.t = "h" -> 33
      [] e.t = "z" -> 33
      [] e.t = "nil" -> 1
      [] e.t = "w" -> RlpHeaderLen(RlpLen(e.of)) + RlpLen(e.of)
      [] e.t = "l" ->
            LET p == SumSeq([i \in 1..Len(e.items) |-> RlpLen(e.items[i])])
            IN RlpHeaderLen(p) + p

emptyRoot == Keccak(RStr(<<>>))
emptyCodeHash == Keccak(RawBytes(<<>>))
HashLength == 32

(***************************************************************************)
(* Node model: nil, value, short (leaf or extension), duo, full, account,  *)
(* hash.  A short node's Key is a nibble string, with the terminator 16    *)
(* when it is a leaf.  A full node's Children is indexed 1..17 (child i    *)
(* of the code is Children[i+1]).                                          *)
(***************************************************************************)
nilNode == [t |-> "nil"]
valueNode(v) == [t |-> "value", v |-> v]
shortNode(key, val) == [t |-> "short", Key |-> key, Val |-> val]
duoNode(i1, i2, c1, c2) ==
    [t |-> "duo", mask |-> 2^i1 + 2^i2, child1 |-> c1, child2 |-> c2]
fullNode(children) == [t |-> "full", Children |-> children]
accountNode(nonce, balance, root, codeHash, storage) ==
    [t |-> "account", Nonce |-> nonce, Balance |-> balance, Root |-> root,
     CodeHash |-> codeHash, storage |-> storage]
hashNode(h) == [t |-> "hash", h |-> h]

Bit(mask, i) == (mask \div 2^i) % 2

\* the two child indices of a duo node, ascending
childrenIdx(n) ==
    LET S == {i \in 0..16 : Bit(n.mask, i) = 1}
        i1 == CHOOSE i \in S : \A j \in S : i <= j
        i2 == CHOOSE i \in S : i # i1
    IN <<i1, i2>>

zeroHash == [t |-> "z"]        \* common.Hash{}: 32 zero bytes
nilBytes == [t |-> "nil"]      \* a nil byte slice

IsEmptyCodeHash(a) == a.CodeHash = nilBytes \/ a.CodeHash = emptyCodeHash
IsEmptyRoot(a) == a.Root = emptyRoot \/ a.Root = zeroHash

(***************************************************************************)
(* Hasher: the canonical RLP of a node, and its hash or inlined encoding.  *)
(* compact says whether short keys are stored in compact form already      *)
(* (the resolver stores them so) or as nibbles.                            *)
(***************************************************************************)
encAccount(a) ==
    RList(<<RUint(a.Nonce), RUint(a.Balance), a.Root, a.CodeHash>>)

RECURSIVE enc(_, _)
childRef(c, compact) ==
    CASE c.t = "nil" -> RStr(<<>>)
      [] c.t = "hash" -> c.h
      [] c.t = "value" -> RStr(c.v)
      [] c.t = "account" -> RWrap(encAccount(c))
      [] OTHER -> LET e == enc(c, compact)
                  IN IF RlpLen(e) < HashLength THEN e ELSE Keccak(e)

enc(n, compact) ==
    CASE n.t = "short" ->
            RList(<<RStr(IF compact THEN n.Key ELSE hexToCompact(n.Key)),
                    childRef(n.Val, compact)>>)
      [] n.t = "duo" ->
            LET ix == childrenIdx(n)
            IN RList([i \in 1..17 |->
                        IF i - 1 = ix[1] THEN childRef(n.child1, compact)
                        ELSE IF i - 1 = ix[2] THEN childRef(n.child2, compact)
                        ELSE RStr(<<>>)])
      [] n.t = "full" ->
            RList([i \in 1..17 |-> childRef(n.Children[i], compact)])
      [] n.t = "account" -> encAccount(n)
      [] n.t = "value" -> RStr(n.v)

\* hasher.hash(n, force, storeTo): the length stored, and what is stored:
\* the Keccak of the encoding, or the encoding itself (zero-padded in a
\* 32-byte buffer) when it is shorter than 32 bytes and not forced.
hashOf(n, force, compact) ==
    IF n.t = "hash" THEN [len |-> HashLength, store |-> n.h]
    ELSE LET e == enc(n, compact)
         IN IF RlpLen(e) < HashLength /\ ~force
            THEN [len |-> RlpLen(e), store |-> [t |-> "pad", of |-> e]]
            ELSE [len |-> HashLength, store |-> Keccak(e)]

\* Trie.Hash(): the root is always hashed; the empty trie has the empty root
rootHash(root, compact) ==
    IF root.t = "nil" THEN emptyRoot ELSE hashOf(root, TRUE, compact).store

(***************************************************************************)
(* ResolveSet.HashOnly: true iff no stored key has hex as a prefix.        *)
(***************************************************************************)
HashOnly(set, hex) == ~ \E k \in set : HasPrefix(k, hex)

(***************************************************************************)
(* BlockWitnessBuilder: five tapes of CBOR items.  An item is a record     *)
(* with its CBOR type: a byte string, an unsigned integer, or a 32-byte    *)
(* string holding a hash.  log is the list of node visits, kept to state   *)
(* what was emitted for which node.                                        *)
(***************************************************************************)
OpLeaf == 0
OpLeafHash == 1
OpExtension == 2
OpExtensionHash == 3
OpBranch == 4
OpBranchHash == 5
OpHash == 6
OpCode == 7
OpAccountLeaf == 8
OpAccountLeafHash == 9
OpContractLeaf == 10
OpContractLeafHash == 11
OpEmptyRoot == 12

CBytes(b) == [ty |-> "bytes", b |-> b]
CUint(n) == [ty |-> "uint", n |-> n]
CHash(h) == [ty |-> "hash", h |-> h]

NoTapes ==
    [Keys |-> <<>>, Values |-> <<>>, Hashes |-> <<>>, Codes |-> <<>>,
     Structure |-> <<>>, log |-> <<>>, asked |-> <<>>]

\* b appended to a, tape by tape
Then(a, b) ==
    [Keys |-> a.Keys \o b.Keys, Values |-> a.Values \o b.Values,
     Hashes |-> a.Hashes \o b.Hashes, Codes |-> a.Codes \o b.Codes,
     Structure |-> a.Structure \o b.Structure, log |-> a.log \o b.log,
     asked |-> a.asked \o b.asked]

RECURSIVE ThenAll(_)
ThenAll(ws) == IF ws = <<>> THEN NoTapes ELSE Then(ws[1], ThenAll(Tail(ws)))

supplyKey(key) == [NoTapes EXCEPT !.Keys = <<CBytes(key)>>]
supplyValue(value) == [NoTapes EXCEPT !.Values = <<CBytes(value)>>]
supplyNumber(value) == [NoTapes EXCEPT !.Values = <<CUint(value)>>]
supplyBigInt(value) == [NoTapes EXCEPT !.Values = <<CBytes(MinBytes(value))>>]
supplyCode(code) == [NoTapes EXCEPT !.Codes = <<CBytes(code)>>]
supplyHash(hash) == [NoTapes EXCEPT !.Hashes = <<CHash(hash)>>]

\* mutant of leaf: the operand does not count the terminator
leaf_withoutTerminator(length) ==
    [NoTapes EXCEPT !.Structure = <<CUint(OpLeaf), CUint(length - 1)>>]

leaf(length) == [NoTapes EXCEPT !.Structure = <<CUint(OpLeaf), CUint(length)>>]
leafHash(length) ==
    [NoTapes EXCEPT !.Structure = <<CUint(OpLeafHash), CUint(length)>>]
extension(key) ==
    [NoTapes EXCEPT !.Structure = <<CUint(OpExtension), CBytes(key)>>]
extensionHash(key) ==
    [NoTapes EXCEPT !.Structure = <<CUint(OpExtensionHash), CBytes(key)>>]
branch(set) == [NoTapes EXCEPT !.Structure = <<CUint(OpBranch), CUint(set)>>]
branchHash(set) ==
    [NoTapes EXCEPT !.Structure = <<CUint(OpBranchHash), CUint(set)>>]
hash(number) == [NoTapes EXCEPT !.Structure = <<CUint(OpHash), CUint(number)>>]
code == [NoTapes EXCEPT !.Structure = <<CUint(OpCode)>>]
accountLeaf(length) ==
    [NoTapes EXCEPT !.Structure = <<CUint(OpAccountLeaf), CUint(length)>>]
accountLeafHash(length) ==
    [NoTapes EXCEPT !.Structure = <<CUint(OpAccountLeafHash), CUint(length)>>]
\* mutant of contractLeaf: the opcode of accountLeaf is written
contractLeaf_asAccountLeaf(length) ==
    [NoTapes EXCEPT !.Structure = <<CUint(OpAccountLeaf), CUint(length)>>]

contractLeaf(length) ==
    [NoTapes EXCEPT !.Structure = <<CUint(OpContractLeaf), CUint(length)>>]
contractLeafHash(length) ==
    [NoTapes EXCEPT !.Structure = <<CUint(OpContractLeafHash), CUint(length)>>]
emptyRootOp == [NoTapes EXCEPT !.Structure = <<CUint(OpEmptyRoot)>>]

\* the code behind a code hash (the codeFromHash callback): the preimage
codeFromHash(codeHash) ==
    IF codeHash.t = "h" /\ codeHash.of.t = "raw" THEN codeHash.of.b ELSE <<>>

\* mutant of Asked: the prefix is asked with a terminator
Asked_withTerminator(hex) == [NoTapes EXCEPT !.asked = <<hex \o <<16>>>>]

\* rs.HashOnly(hex) is called: the prefix joins the sequence of prefixes asked
Asked(hex) == [NoTapes EXCEPT !.asked = <<hex>>]

\* one entry of the visit log: the node kind, the prefix it was visited at,
\* the HashOnly answer saved for it, the opcode it emitted (-1: none), the
\* number of hashes, keys and values it put on the tapes itself, and
\* whether makeBlockWitness was invoked on its children
Visit(kind, hex, hashOnly, own, rec) ==
    [NoTapes EXCEPT !.log =
        <<[kind |-> kind, hex |-> hex, hashOnly |-> hashOnly,
           op |-> IF own.Structure = <<>> THEN -1 ELSE own.Structure[1].n,
           nh |-> Len(own.Hashes), nk |-> Len(own.Keys),
           nv |-> Len(own.Values), rec |-> rec]>>]

\* mutant of shortOwn: the hashOnly test of the leaf opcodes inverted
shortOwn_inverted(n, hashOnly) ==
    CASE n.Val.t = "value" ->
            Then(supplyKey(n.Key),
                 IF ~hashOnly THEN leafHash(Len(n.Key)) ELSE leaf(Len(n.Key)))
      [] n.Val.t = "account" ->
            Then(supplyKey(n.Key),
                 IF ~hashOnly
                 THEN IF IsEmptyRoot(n.Val) /\ IsEmptyCodeHash(n.Val)
                      THEN accountLeafHash(Len(n.Key))
                      ELSE contractLeafHash(Len(n.Key))
                 ELSE IF IsEmptyRoot(n.Val) /\ IsEmptyCodeHash(n.Val)
                      THEN accountLeaf(Len(n.Key))
                      ELSE contractLeaf(Len(n.Key)))
      [] OTHER ->
            IF hashOnly THEN extensionHash(n.Key) ELSE extension(n.Key)

\* makeBlockWitness, shortNode case: what is emitted after the recursive call
shortOwn(n, hashOnly) ==
    CASE n.Val.t = "value" ->
            Then(supplyKey(n.Key),
                 IF hashOnly THEN leafHash(Len(n.Key)) ELSE leaf(Len(n.Key)))
      [] n.Val.t = "account" ->
            Then(supplyKey(n.Key),
                 IF hashOnly
                 THEN IF IsEmptyRoot(n.Val) /\ IsEmptyCodeHash(n.Val)
                      THEN accountLeafHash(Len(n.Key))
                      ELSE contractLeafHash(Len(n.Key))
                 ELSE IF IsEmptyRoot(n.Val) /\ IsEmptyCodeHash(n.Val)
                      THEN accountLeaf(Len(n.Key))
                      ELSE contractLeaf(Len(n.Key)))
      [] OTHER ->
            IF hashOnly THEN extensionHash(n.Key) ELSE extension(n.Key)

\* duoNode and fullNode cases with hashOnly: the node's hash and OpHash(1)
branchHashed(n, force) ==
    Then(supplyHash(hashOf(n, force, FALSE).store), hash(1))

\* duoNode and fullNode cases: the opcode that follows the children
branchOwn(set, hashOnly) == IF hashOnly THEN branchHash(set) ELSE branch(set)

\* accountNode case with hashOnly: storage root, code hash and OpHash(2)
accountHashed(n) ==
    ThenAll(<<supplyHash(n.Root), supplyHash(n.CodeHash), hash(2)>>)

\* mutant of accountCode: the code is supplied and no OpCode is emitted
accountCode_noOpcode(n) == supplyCode(codeFromHash(n.CodeHash))

\* accountNode case without hashOnly: what follows the storage subtree
accountCode(n) == Then(supplyCode(codeFromHash(n.CodeHash)), code)

\* mutant of accountTail: the balance is not supplied
accountTail_noBalance(n) == supplyNumber(n.Nonce)

\* accountNode case: nonce and balance close the account's items
accountTail(n) == Then(supplyNumber(n.Nonce), supplyBigInt(n.Balance))

RECURSIVE makeBlockWitness(_, _, _, _)
makeBlockWitness(nd, hex, set, force) ==
    CASE nd.t = "nil" -> NoTapes
      [] nd.t = "value" -> supplyValue(nd.v)
      [] nd.t = "short" ->
            LET hashOnly == HashOnly(set, hex)
                h == IF Last(nd.Key) = 16 THEN Front(nd.Key) ELSE nd.Key
                hexVal == hex \o h
                own == shortOwn(nd, hashOnly)
                kind == CASE nd.Val.t = "value" -> "leaf"
                          [] nd.Val.t = "account" ->
                                IF IsEmptyRoot(nd.Val) /\ IsEmptyCodeHash(nd.Val)
                                THEN "accountLeaf" ELSE "contractLeaf"
                          [] OTHER -> "extension"
            IN ThenAll(<<Asked(hex),
                         makeBlockWitness(nd.Val, hexVal, set, FALSE), own,
                         Visit(kind, hex, hashOnly, own, TRUE)>>)
      [] nd.t = "duo" ->
            LET hashOnly == HashOnly(set, hex)
                ix == childrenIdx(nd)
                hex1 == hex \o <<ix[1]>>
                hex2 == hex \o <<ix[2]>>
            IN IF hashOnly
               THEN ThenAll(<<Asked(hex), branchHashed(nd, force),
                              Visit("branch", hex, hashOnly,
                                    branchHashed(nd, force), FALSE)>>)
               ELSE ThenAll(<<Asked(hex),
                              makeBlockWitness(nd.child1, hex1, set, FALSE),
                              makeBlockWitness(nd.child2, hex2, set, FALSE),
                              branchOwn(nd.mask, hashOnly),
                              Visit("branch", hex, hashOnly,
                                    branchOwn(nd.mask, hashOnly), TRUE)>>)
      [] nd.t = "full" ->
            LET hashOnly == HashOnly(set, hex)
                present == {i \in 0..16 : nd.Children[i + 1] # nilNode}
                set32 == SumSeq([i \in 1..17 |->
                                   IF (i - 1) \in present THEN 2^(i - 1) ELSE 0])
                kids == [i \in 1..17 |->
                           IF (i - 1) \in present
                           THEN makeBlockWitness(nd.Children[i],
                                                 hex \o <<i - 1>>, set, FALSE)
                           ELSE NoTapes]
            IN IF hashOnly
               THEN ThenAll(<<Asked(hex), branchHashed(nd, Len(hex) = 0),
                              Visit("branch", hex, hashOnly,
                                    branchHashed(nd, Len(hex) = 0), FALSE)>>)
               ELSE ThenAll(<<Asked(hex), ThenAll(kids),
                              branchOwn(set32, hashOnly),
                              Visit("branch", hex, hashOnly,
                                    branchOwn(set32, hashOnly), TRUE)>>)
      [] nd.t = "account" ->
            LET hashOnly == HashOnly(set, hex)
                contract == ~IsEmptyRoot(nd) \/ ~IsEmptyCodeHash(nd)
                own == IF ~contract THEN NoTapes
                       ELSE IF hashOnly THEN accountHashed(nd)
                       ELSE accountCode(nd)
                sub == IF contract /\ ~hashOnly
                       THEN makeBlockWitness(nd.storage, hex, set, TRUE)
                       ELSE NoTapes
            IN ThenAll(<<Asked(hex), sub, own, accountTail(nd),
                         Visit(IF contract THEN "contract" ELSE "account",
                               hex, hashOnly, Then(own, accountTail(nd)),
                               contract /\ ~hashOnly)>>)

\* MakeBlockWitness(t, rs, codeFromHash)
MakeBlockWitnessOf(trie, set) == makeBlockWitness(trie.root, <<>>, set, TRUE)

(***************************************************************************)
(* WriteTo and BlockWitnessToTrie                                          *)
(***************************************************************************)
\* the head of a CBOR item: the major type and its argument n
cborHead(major, n) ==
    IF n < 24 THEN <<major * 32 + n>>
    ELSE IF n < 256 THEN <<major * 32 + 24, n>>
    ELSE IF n < 65536 THEN <<major * 32 + 25, n \div 256, n % 256>>
    ELSE <<major * 32 + 26, n \div 16777216, (n \div 65536) % 256,
           (n \div 256) % 256, n % 256>>

\* the bytes the tape's encoder wrote for item it: an unsigned integer, a
\* byte string, or the 32 bytes of a hash (a symbolic hash is written as
\* its first position on the tape followed by zeros)
cborItem(it, tape) ==
    CASE it.ty = "uint" -> cborHead(0, it.n)
      [] it.ty = "bytes" -> cborHead(2, Len(it.b)) \o it.b
      [] it.ty = "hash" ->
            cborHead(2, 32)
              \o [i \in 1..32 |->
                    IF i = 1
                    THEN CHOOSE j \in 1..Len(tape) :
                            tape[j] = it /\ \A m \in 1..(j - 1) : tape[m] # it
                    ELSE 0]

\* the buffer of a tape: its items as the encoder wrote them, one after
\* the other
tapeBytes(tape) == Flatten([i \in 1..Len(tape) |-> cborItem(tape[i], tape)])

\* mutant of WriteToOf: the structure tape is written first
WriteToOf_structureFirst(b) ==
    [lens |-> [Keys |-> Len(tapeBytes(b.Keys)),
               Values |-> Len(tapeBytes(b.Values)),
               Hashes |-> Len(tapeBytes(b.Hashes)),
               Codes |-> Len(tapeBytes(b.Codes)),
               Structure |-> Len(tapeBytes(b.Structure))],
     body |-> tapeBytes(b.Structure) \o tapeBytes(b.Keys)
                \o tapeBytes(b.Values) \o tapeBytes(b.Hashes)
                \o tapeBytes(b.Codes)]

\* WriteTo: the header (tape name -> length of its buffer) and then the
\* five buffers
WriteToOf(b) ==
    [lens |-> [Keys |-> Len(tapeBytes(b.Keys)),
               Values |-> Len(tapeBytes(b.Values)),
               Hashes |-> Len(tapeBytes(b.Hashes)),
               Codes |-> Len(tapeBytes(b.Codes)),
               Structure |-> Len(tapeBytes(b.Structure))],
     body |-> tapeBytes(b.Keys) \o tapeBytes(b.Values)
                \o tapeBytes(b.Hashes) \o tapeBytes(b.Codes)
                \o tapeBytes(b.Structure)]

\* BlockWitnessToTrie decodes the header and returns (nil, nil, nil): the
\* slicing of the bodies is commented out and no opcode is executed
BlockWitnessToTrieOf(bytes) ==
    [trie |-> [root |-> nilNode], codes |-> {}, err |-> "nil"]

(***************************************************************************)
(* Replay of the structure tape by the stack machine the Instruction       *)
(* comments describe.  The node stack and the hash stack are kept level:   *)
(* every opcode pushes one entry, which holds a node and its hash          *)
(* ("node") or a hash alone ("hash"), and an opcode that pops children     *)
(* pops entries.  (Read with two independent stacks, OpBranch after any    *)
(* *Hash opcode would find the node stack short in every partial witness.) *)
(***************************************************************************)
RECURSIVE PopCount(_)
PopCount(mask) == IF mask = 0 THEN 0 ELSE (mask % 2) + PopCount(mask \div 2)

HasOperand(op) == op \notin {OpCode, OpEmptyRoot}

\* tape items the opcode consumes, by tape: <<keys, values, hashes, codes>>
Consumes(op, arg) ==
    CASE op \in {OpLeaf, OpLeafHash} -> <<1, 1, 0, 0>>
      [] op \in {OpAccountLeaf, OpAccountLeafHash,
                 OpContractLeaf, OpContractLeafHash} -> <<1, 2, 0, 0>>
      [] op = OpHash -> <<0, 0, arg, 0>>
      [] op = OpCode -> <<0, 0, 0, 1>>
      [] OTHER -> <<0, 0, 0, 0>>

\* stack entries the opcode pops
Pops(op, arg) ==
    CASE op \in {OpExtension, OpExtensionHash} -> 1
      [] op \in {OpBranch, OpBranchHash} -> PopCount(arg)
      [] op \in {OpContractLeaf, OpContractLeafHash} -> 2
      [] OTHER -> 0

\* stack entries the opcode pushes
Pushes(op, arg) ==
    CASE op \in {OpLeaf, OpExtension, OpBranch, OpCode, OpAccountLeaf,
                 OpContractLeaf, OpEmptyRoot} -> <<"node">>
      [] op = OpHash -> [i \in 1..arg |-> "hash"]
      [] OTHER -> <<"hash">>

\* the CBOR types of the values an opcode reads from the Values tape
ValueTypes(op) ==
    IF op \in {OpLeaf, OpLeafHash} THEN <<"bytes">> ELSE <<"uint", "bytes">>

ReplayInit ==
    [pos |-> 1, ik |-> 0, iv |-> 0, ih |-> 0, ic |-> 0, stack |-> <<>>,
     underflow |-> FALSE, overrun |-> FALSE, badType |-> FALSE, ops |-> <<>>]

ReplayDone(r, b) == r.pos > Len(b.Structure)

\* one opcode of the structure tape executed on replay state r over tapes b
ReplayOp(r, b) ==
    LET op == b.Structure[r.pos].n
        arg == IF HasOperand(op) /\ r.pos < Len(b.Structure)
               THEN b.Structure[r.pos + 1]
               ELSE CUint(0)
        n == IF arg.ty = "uint" THEN arg.n ELSE 0
        c == Consumes(op, n)
        p == Pops(op, n)
        over == \/ r.ik + c[1] > Len(b.Keys) \/ r.iv + c[2] > Len(b.Values)
                \/ r.ih + c[3] > Len(b.Hashes) \/ r.ic + c[4] > Len(b.Codes)
                \/ (HasOperand(op) /\ r.pos >= Len(b.Structure))
        bad == /\ ~over
               /\ \/ \E i \in 1..c[1] : b.Keys[r.ik + i].ty # "bytes"
                  \/ \E i \in 1..c[2] :
                        b.Values[r.iv + i].ty # ValueTypes(op)[i]
                  \/ \E i \in 1..c[3] : b.Hashes[r.ih + i].ty # "hash"
                  \/ \E i \in 1..c[4] : b.Codes[r.ic + i].ty # "bytes"
                  \/ (c[1] = 1 /\ Len(b.Keys[r.ik + 1].b) # n)
                  \/ (op \in {OpExtension, OpExtensionHash} /\ arg.ty # "bytes")
                  \/ (op \notin {OpExtension, OpExtensionHash}
                        /\ HasOperand(op) /\ arg.ty # "uint")
        kept == IF p <= Len(r.stack) THEN Take(r.stack, Len(r.stack) - p)
                ELSE <<>>
    IN [pos |-> r.pos + (IF HasOperand(op) THEN 2 ELSE 1),
        ik |-> r.ik + c[1], iv |-> r.iv + c[2],
        ih |-> r.ih + c[3], ic |-> r.ic + c[4],
        stack |-> kept \o Pushes(op, n),
        underflow |-> r.underflow \/ p > Len(r.stack),
        overrun |-> r.overrun \/ over,
        badType |-> r.badType \/ bad,
        ops |-> Append(r.ops, op)]

(***************************************************************************)
(* The tries and resolve sets the witness builder is run on                *)
(***************************************************************************)
SetMin(S) == CHOOSE x \in S : \A y \in S : x <= y

\* The trie holding the entries E (records [k |-> nibbles, v |-> leaf
\* value]), whose keys have one length and share their first pos nibbles:
\* one key is a leaf, a longer common prefix an extension, two children a
\* duo and more a full node.
RECURSIVE buildTrie(_, _)
branchAt(E, pos) ==
    LET N == {e.k[pos + 1] : e \in E}
        child(i) == IF i \in N
                    THEN buildTrie({e \in E : e.k[pos + 1] = i}, pos + 1)
                    ELSE nilNode
        i1 == SetMin(N)
        i2 == SetMin(N \ {i1})
    IN IF Cardinality(N) = 2
       THEN duoNode(i1, i2, child(i1), child(i2))
       ELSE fullNode([i \in 1..17 |-> child(i - 1)])

buildTrie(E, pos) ==
    LET any == CHOOSE e \in E : TRUE
        c == SetMin({prefixLen(any.k, e.k) : e \in E})
    IN IF Cardinality(E) = 1 THEN shortNode(Drop(any.k, pos) \o <<16>>, any.v)
       ELSE IF c > pos THEN shortNode(SubSeq(any.k, pos + 1, c), branchAt(E, c))
       ELSE branchAt(E, pos)

trieOf(E) == [root |-> IF E = {} THEN nilNode ELSE buildTrie(E, 0)]

ShortValue == <<7>>
LongValue == [i \in 1..33 |-> 1]
SomeCode == <<96, 0>>

Storage1 == trieOf({[k |-> <<3, 0>>, v |-> valueNode(ShortValue)]})
Storage2 == trieOf({[k |-> <<3, 0>>, v |-> valueNode(ShortValue)],
                    [k |-> <<3, 1>>, v |-> valueNode(LongValue)]})

\* the leaves a trie may hold: values, and accounts with every combination
\* of empty and non-empty storage and code
LeafOf(kind) ==
    CASE kind = "val" -> valueNode(ShortValue)
      [] kind = "long" -> valueNode(LongValue)
      [] kind = "eoa" -> accountNode(1, 10, emptyRoot, emptyCodeHash, nilNode)
      [] kind = "code" ->
            accountNode(0, 0, emptyRoot, Keccak(RawBytes(SomeCode)), nilNode)
      [] kind = "stor" ->
            accountNode(1, 0, rootHash(Storage1.root, FALSE), emptyCodeHash,
                        Storage1.root)
      [] kind = "both" ->
            accountNode(2, 300, rootHash(Storage2.root, FALSE),
                        Keccak(RawBytes(SomeCode)), Storage2.root)

LeafKinds == {"val", "long", "eoa", "code", "stor", "both"}
WKeys == {<<0, 0>>, <<0, 1>>, <<1, 0>>, <<2, 5>>}
MaxLeaves == 3
MaxResolve == 2

\* the keys a resolve set may hold: keys of WKeys, a key outside of it, and
\* storage keys below a key of WKeys (present and absent in the storage)
ResolveKeys ==
    {k \o <<16>> : k \in {<<0, 0>>, <<0, 1>>, <<1, 0>>, <<0, 2>>}}
        \cup {<<0, 0>> \o s \o <<16>> : s \in {<<3, 0>>, <<3, 1>>, <<4, 4>>}}

WTries ==
    {trieOf({[k |-> k, v |-> LeafOf(f[k])] : k \in K}) :
        <<K, f>> \in {<<K, f>> \in UNION {{K} \X [K -> LeafKinds] :
                            K \in {K \in SUBSET WKeys : Cardinality(K) <= MaxLeaves}} :
                        TRUE}}

\* keys of full length: 8 bytes for a value, 32 bytes for an account
WKey8 == [i \in 1..8 |-> 16 * i + i]
WKey32 == [i \in 1..32 |-> 7 * i]

WLongKeyTries ==
    {trieOf({[k |-> keyNibbles(WKey8), v |-> LeafOf(kind)]}) :
        kind \in {"val", "long"}}
      \cup {trieOf({[k |-> keyNibbles(WKey32), v |-> LeafOf(kind)]}) :
               kind \in {"eoa", "both"}}

WInit ==
    /\ wphase = "init"
    /\ \/ /\ t \in WTries
          /\ rs \in {R \in SUBSET ResolveKeys : Cardinality(R) <= MaxResolve}
       \/ /\ t \in WLongKeyTries
          /\ rs \in {{}, {keybytesToHex(WKey8)}, {keybytesToHex(WKey32)}}
    /\ bwb = NoTapes
    /\ rp = ReplayInit
    /\ bw = <<>>
    /\ loaded = <<>>
    /\ RIdle /\ HIdle /\ AIdle /\ OIdle

\* bwb.MakeBlockWitness(t, rs, codeFromHash)
MakeBlockWitness ==
    /\ wphase = "init"
    /\ bwb' = Then(bwb, MakeBlockWitnessOf(t, rs))
    /\ wphase' = "built"
    /\ UNCHANGED <<t, rs, rp, bw, loaded>>
    /\ UNCHANGED <<rvars, hvars, avars, ovars>>

\* the stack machine executes the next opcode of the structure tape
Replay ==
    /\ wphase = "built"
    /\ ~ReplayDone(rp, bwb)
    /\ rp' = ReplayOp(rp, bwb)
    /\ UNCHANGED <<wphase, t, rs, bwb, bw, loaded>>
    /\ UNCHANGED <<rvars, hvars, avars, ovars>>

\* bwb.WriteTo(w)
WriteTo ==
    /\ wphase = "built"
    /\ ReplayDone(rp, bwb)
    /\ bw' = WriteToOf(bwb)
    /\ wphase' = "written"
    /\ UNCHANGED <<t, rs, bwb, rp, loaded>>
    /\ UNCHANGED <<rvars, hvars, avars, ovars>>

\* BlockWitnessToTrie(bw)
BlockWitnessToTrie ==
    /\ wphase = "written"
    /\ loaded' = BlockWitnessToTrieOf(bw)
    /\ wphase' = "loaded"
    /\ UNCHANGED <<t, rs, bwb, rp, bw>>
    /\ UNCHANGED <<rvars, hvars, avars, ovars>>

WNext == MakeBlockWitness \/ Replay \/ WriteTo \/ BlockWitnessToTrie

SpecW == WInit /\ [][WNext]_vars

(***************************************************************************)
(* Claims about the witness builder and the loader                         *)
(***************************************************************************)
WBuilt == wphase # "init"
WReplayed == WBuilt /\ ReplayDone(rp, bwb)

\* C4: loading the bytes that MakeBlockWitness and WriteTo produced for
\* (t, R) returns a trie whose root hash is the root hash of t.
C4_LoadKeepsRootHash ==
    wphase = "loaded" =>
        rootHash(loaded.trie.root, FALSE) = rootHash(t.root, FALSE)

\* the keys of the leaves below node n visited at prefix hex, storage keys
\* included, as a resolve set names them (with terminator)
RECURSIVE leafKeys(_, _)
leafKeys(n, hex) ==
    CASE n.t = "short" ->
            IF n.Val.t = "value" THEN {hex \o n.Key}
            ELSE IF n.Val.t = "account"
            THEN {hex \o n.Key} \cup leafKeys(n.Val.storage, hex \o Front(n.Key))
            ELSE leafKeys(n.Val, hex \o n.Key)
      [] n.t = "duo" ->
            leafKeys(n.child1, hex \o <<childrenIdx(n)[1]>>)
                \cup leafKeys(n.child2, hex \o <<childrenIdx(n)[2]>>)
      [] n.t = "full" ->
            UNION {leafKeys(n.Children[i], hex \o <<i - 1>>) : i \in 1..17}
      [] OTHER -> {}

\* the codes the witness carries on its Codes tape, by code hash
emittedCodes ==
    {<<Keccak(RawBytes(bwb.Codes[i].b)), bwb.Codes[i].b>> :
        i \in 1..Len(bwb.Codes)}

\* C5: when R covers every key of t, loading the witness of (t, R) returns
\* a trie structurally equal to t and the code hash -> code map of every
\* code an OpCode emitted.
C5_LoadRebuildsTrie ==
    (wphase = "loaded" /\ leafKeys(t.root, <<>>) \subseteq rs) =>
        (loaded.trie = t /\ loaded.codes = emittedCodes)

\* C6: replaying the structure tape of a trie of value, short, duo, full
\* and account nodes never pops from an empty stack, and after the last
\* opcode exactly one element remains.
C6_ReplayStackDiscipline ==
    (WBuilt /\ t.root # nilNode) =>
        (~rp.underflow /\ (ReplayDone(rp, bwb) => Len(rp.stack) = 1))

\* C7: during a replay every item of the Keys, Values, Hashes and Codes
\* tapes is read by exactly one opcode, in tape order and with the type
\* the opcode expects; no opcode reads past the end of a tape and no item
\* is left unread.
C7_TapesConsumedExactly ==
    WBuilt =>
        /\ ~rp.overrun /\ ~rp.badType
        /\ rp.ik <= Len(bwb.Keys) /\ rp.iv <= Len(bwb.Values)
        /\ rp.ih <= Len(bwb.Hashes) /\ rp.ic <= Len(bwb.Codes)
        /\ ReplayDone(rp, bwb) =>
              /\ rp.ik = Len(bwb.Keys) /\ rp.iv = Len(bwb.Values)
              /\ rp.ih = Len(bwb.Hashes) /\ rp.ic = Len(bwb.Codes)

\* a replay that is over and has read keys, account values, hashes and a code
C7_Witness ==
    /\ WReplayed
    /\ rp.ik >= 2 /\ rp.iv >= 4 /\ rp.ih >= 1 /\ rp.ic >= 1
    /\ OpContractLeaf \in {rp.ops[i] : i \in 1..Len(rp.ops)}

HashVariant(kind) ==
    CASE kind = "leaf" -> OpLeafHash
      [] kind = "accountLeaf" -> OpAccountLeafHash
      [] kind = "contractLeaf" -> OpContractLeafHash
      [] kind = "extension" -> OpExtensionHash
      [] kind = "branch" -> OpBranchHash

StructuralVariant(kind) ==
    CASE kind = "leaf" -> OpLeaf
      [] kind = "accountLeaf" -> OpAccountLeaf
      [] kind = "contractLeaf" -> OpContractLeaf
      [] kind = "extension" -> OpExtension
      [] kind = "branch" -> OpBranch

OpcodeKinds == {"leaf", "accountLeaf", "contractLeaf", "extension", "branch"}
VisitsOf(kinds) == {i \in 1..Len(bwb.log) : bwb.log[i].kind \in kinds}

\* C8 as stated: a short, branch or account node visited at a prefix p with
\* hash_only(p) emits the *Hash variant of its opcode and contributes only
\* a hash; with hash_only(p) false it emits the structural variant and
\* recurses into its children.
C8_HashVariantOnlyHash ==
    WBuilt => \A i \in VisitsOf(OpcodeKinds) :
        LET v == bwb.log[i]
        IN IF v.hashOnly
           THEN v.op = HashVariant(v.kind) /\ v.nk = 0 /\ v.nv = 0 /\ ~v.rec
           ELSE v.op = StructuralVariant(v.kind) /\ v.rec

\* C8 amended: a short node visited at p emits the *Hash variant of its
\* opcode iff hash_only(p), puts its key on the Keys tape when it is a leaf
\* and no hash on the Hashes tape, and its child is visited either way; a
\* Duo/Full with hash_only(p) puts one hash on the Hashes tape, emits
\* OpHash (never BranchHash) and its children are not visited, and without
\* hash_only(p) it emits Branch after visiting its children; an account
\* with storage or code, visited at q, puts two hashes and OpHash with
\* hash_only(q), and visits its storage and emits OpCode without.
C8_EmittedVariants ==
    WBuilt => \A i \in 1..Len(bwb.log) :
        LET v == bwb.log[i]
        IN CASE v.kind \in {"leaf", "accountLeaf", "contractLeaf", "extension"} ->
                  /\ v.op = IF v.hashOnly THEN HashVariant(v.kind)
                            ELSE StructuralVariant(v.kind)
                  /\ v.rec /\ v.nh = 0
                  /\ v.nk = IF v.kind = "extension" THEN 0 ELSE 1
             [] v.kind = "branch" ->
                  IF v.hashOnly
                  THEN v.op = OpHash /\ v.nh = 1 /\ ~v.rec
                  ELSE v.op = OpBranch /\ v.nh = 0 /\ v.rec
             [] v.kind = "contract" ->
                  IF v.hashOnly
                  THEN v.op = OpHash /\ v.nh = 2 /\ ~v.rec /\ v.nv = 2
                  ELSE v.op = OpCode /\ v.nh = 0 /\ v.rec /\ v.nv = 2
             [] v.kind = "account" -> v.op = -1 /\ v.nh = 0 /\ v.nv = 2

\* a witness holding a hashed branch, a hashed leaf and a structural
\* contract leaf
C8_Witness ==
    /\ WBuilt
    /\ \E i \in VisitsOf({"branch"}) : bwb.log[i].hashOnly
    /\ \E i \in VisitsOf({"leaf"}) : bwb.log[i].hashOnly
    /\ \E i \in VisitsOf({"contractLeaf"}) : ~bwb.log[i].hashOnly
    /\ \E i \in VisitsOf({"extension"}) : TRUE

\* the leaves of the trie below n (visited at prefix hex) that hold an
\* account with storage or code: the prefix, the short node's key and the
\* account
RECURSIVE contractLeaves(_, _)
contractLeaves(n, hex) ==
    CASE n.t = "short" ->
            IF n.Val.t = "account"
            THEN IF IsEmptyRoot(n.Val) /\ IsEmptyCodeHash(n.Val) THEN {}
                 ELSE {[hex |-> hex, Key |-> n.Key, acc |-> n.Val]}
            ELSE contractLeaves(n.Val, hex \o n.Key)
      [] n.t = "duo" ->
            contractLeaves(n.child1, hex \o <<childrenIdx(n)[1]>>)
                \cup contractLeaves(n.child2, hex \o <<childrenIdx(n)[2]>>)
      [] n.t = "full" ->
            UNION {contractLeaves(n.Children[i], hex \o <<i - 1>>) : i \in 1..17}
      [] OTHER -> {}

\* the account of leaf c is on the resolve path: a key of the resolve set
\* is, or lies below, the account's key
onResolvePath(c) == ~HashOnly(rs, c.hex \o Front(c.Key))

\* the items p are found in tape s contiguously and in this order
occursIn(p, s) ==
    \E i \in 0..(Len(s) - Len(p)) : SubSeq(s, i + 1, i + Len(p)) = p

\* the opcodes of a structure tape, without their operands
RECURSIVE opcodesOf(_)
opcodesOf(s) ==
    IF s = <<>> THEN <<>>
    ELSE <<s[1].n>> \o opcodesOf(Drop(s, IF HasOperand(s[1].n) THEN 2 ELSE 1))

\* what the storage subtree of leaf c puts on the tapes
storageTapes(c) ==
    makeBlockWitness(c.acc.storage, c.hex \o Front(c.Key), rs, TRUE)

\* C15: for every account with code or storage that is on the resolve
\* path, the structure tape holds contiguously the opcodes of its storage
\* subtree, then exactly one OpCode, then OpContractLeaf; the Values tape
\* holds the storage subtree's values, then the nonce, then the balance.
C15_StorageCodeContractLeaf ==
    WBuilt => \A c \in contractLeaves(t.root, <<>>) :
        onResolvePath(c) => \A st \in {storageTapes(c)} :
            /\ occursIn(st.Structure
                          \o <<CUint(OpCode), CUint(OpContractLeaf),
                               CUint(Len(c.Key))>>, bwb.Structure)
            /\ occursIn(st.Values
                          \o <<CUint(c.acc.Nonce),
                               CBytes(MinBytes(c.acc.Balance))>>, bwb.Values)
            /\ \A i \in 1..Len(opcodesOf(st.Structure)) :
                  opcodesOf(st.Structure)[i] # OpCode

\* a witness was built for an account with code and two storage slots, one
\* of them named by the resolve set
C15_Witness ==
    /\ WBuilt
    /\ \E c \in contractLeaves(t.root, <<>>) :
          /\ onResolvePath(c)
          /\ Len(storageTapes(c).Structure) > 2
          /\ Len(storageTapes(c).Values) > 0
          /\ c.acc.CodeHash # emptyCodeHash

\* C16: MakeBlockWitness on an empty trie (nil root) emits exactly one
\* item on the structure tape, the opcode OpEmptyRoot, and nothing on the
\* keys, values, hashes and codes tapes.
C16_EmptyTrieEmitsEmptyRoot ==
    (WBuilt /\ t.root = nilNode) =>
        /\ bwb.Structure = emptyRootOp.Structure
        /\ bwb.Keys = <<>> /\ bwb.Values = <<>>
        /\ bwb.Hashes = <<>> /\ bwb.Codes = <<>>

\* A resolve set kept as a sorted list of hexes with a cursor that only
\* advances: the cursor stops at the first hex that is not below the prefix
\* asked, and the answer is read from the hex under the cursor.
advance(hexes, cur, prefix) ==
    CHOOSE c \in cur..(Len(hexes) + 1) :
        /\ c = Len(hexes) + 1 \/ Compare(hexes[c], prefix) >= 0
        /\ \A j \in cur..(c - 1) : Compare(hexes[j], prefix) < 0

\* the answers of the cursor to the prefixes qs asked in this order
RECURSIVE cursorAnswers(_, _, _)
cursorAnswers(hexes, cur, qs) ==
    IF qs = <<>> THEN <<>>
    ELSE CHOOSE r \in
           {<<~(c <= Len(hexes) /\ HasPrefix(hexes[c], qs[1]))>>
                \o cursorAnswers(hexes, c, Tail(qs)) :
              c \in {advance(hexes, cur, qs[1])}} : TRUE

\* C28: during one MakeBlockWitness run the prefixes passed to HashOnly are
\* non-decreasing in lexicographic order, and a resolve set whose cursor
\* only advances gives to each of them the answer of the stateless
\* definition over the whole set.
C28_AskedPrefixesAscend ==
    WBuilt =>
        /\ \A i \in 1..(Len(bwb.asked) - 1) :
              Compare(bwb.asked[i], bwb.asked[i + 1]) <= 0
        /\ cursorAnswers(SortSeqs(rs), 1, bwb.asked)
              = [i \in 1..Len(bwb.asked) |-> HashOnly(rs, bwb.asked[i])]

\* a witness was built with two resolve keys, for a trie in which a branch
\* was asked before its children and an account before its storage, with
\* both answers given
C28_Witness ==
    /\ WBuilt
    /\ Cardinality(rs) = 2
    /\ \E i, j \in 1..Len(bwb.asked) :
          /\ i < j
          /\ HashOnly(rs, bwb.asked[i]) /\ ~HashOnly(rs, bwb.asked[j])
    /\ \E i \in 1..(Len(bwb.asked) - 1) : bwb.asked[i] = bwb.asked[i + 1]
    /\ \E i \in 1..(Len(bwb.asked) - 1) :
          Len(bwb.asked[i + 1]) < Len(bwb.asked[i])

\* C29: for an account on the resolve path that has code and an empty
\* storage subtree, the structure tape holds OpEmptyRoot for the storage
\* immediately before the account's OpCode and OpContractLeaf, so that the
\* replay of ContractLeaf finds two entries to pop.
C29_EmptyStorageEmitsEmptyRoot ==
    WBuilt => \A c \in contractLeaves(t.root, <<>>) :
        (/\ onResolvePath(c)
         /\ c.acc.CodeHash # emptyCodeHash
         /\ c.acc.storage = nilNode)
            => occursIn(emptyRootOp.Structure
                          \o <<CUint(OpCode), CUint(OpContractLeaf),
                               CUint(Len(c.Key))>>, bwb.Structure)

LeafOpcodes ==
    {OpLeaf, OpLeafHash, OpAccountLeaf, OpAccountLeafHash, OpContractLeaf,
     OpContractLeafHash}

\* the leaf opcodes of a structure tape with their operands, in tape order:
\* the i-th of them reads the i-th item of the Keys tape
RECURSIVE leafOperands(_)
leafOperands(s) ==
    IF s = <<>> THEN <<>>
    ELSE (IF s[1].n \in LeafOpcodes
          THEN <<[op |-> s[1].n, n |-> s[2].n]>> ELSE <<>>)
            \o leafOperands(Drop(s, IF HasOperand(s[1].n) THEN 2 ELSE 1))

isSuffix(a, b) == Len(a) <= Len(b) /\ SubSeq(b, Len(b) - Len(a) + 1, Len(b)) = a

\* the trie holds the single key of the given bytes
only(key) == {keybytesToHex(key)}
holdsOnly(key) == leafKeys(t.root, <<>>) = only(key)

\* C17 as stated: the operand of a leaf opcode is the number of nibbles of
\* the leaf's key without the terminator nibble, and the item on the Keys
\* tape is that key without terminator: one 8-byte key yields operand 16,
\* one account at a 32-byte key yields operand 64.
C17_OperandWithoutTerminator ==
    WBuilt => \A ops \in {leafOperands(bwb.Structure)},
                 lk \in {leafKeys(t.root, <<>>)} :
        /\ Len(ops) = Len(bwb.Keys)
        /\ \A i \in 1..Len(ops) :
              /\ ~hasTerm(bwb.Keys[i].b)
              /\ ops[i].n = Len(bwb.Keys[i].b)
              /\ \E k \in lk :
                    isSuffix(bwb.Keys[i].b \o <<16>>, k)
        /\ lk = only(WKey8) => ops[1].n = 16
        /\ lk = only(WKey32) => ops[1].n = 64

\* C17, amended: the operand of a leaf opcode is the length of the short
\* node's key as the trie holds it, in nibbles and counting the terminator
\* nibble, and the item on the Keys tape is that key, one nibble per byte,
\* terminator included: one 8-byte key yields Leaf(17) or LeafHash(17) and
\* a key item of 17 nibbles, one account at a 32-byte key yields operand 65.
C17_OperandCountsTerminator ==
    WBuilt => \A ops \in {leafOperands(bwb.Structure)},
                 lk \in {leafKeys(t.root, <<>>)} :
        /\ Len(ops) = Len(bwb.Keys)
        /\ \A i \in 1..Len(ops) :
              /\ hasTerm(bwb.Keys[i].b)
              /\ ops[i].n = Len(bwb.Keys[i].b)
              /\ \E k \in lk : isSuffix(bwb.Keys[i].b, k)
        /\ lk = only(WKey8) =>
              /\ bwb.Keys = <<CBytes(keybytesToHex(WKey8))>>
              /\ bwb.Structure =
                    <<CUint(IF rs = {} THEN OpLeafHash ELSE OpLeaf), CUint(17)>>
        /\ lk = only(WKey32) =>
              /\ bwb.Keys = <<CBytes(keybytesToHex(WKey32))>>
              /\ ops[1].n = 65

\* the witness of a trie holding one 8-byte key, named by the resolve set
C17_Witness ==
    /\ WBuilt /\ holdsOnly(WKey8) /\ rs = {keybytesToHex(WKey8)}
    /\ leafOperands(bwb.Structure) = <<[op |-> OpLeaf, n |-> 17]>>

WWritten == wphase \in {"written", "loaded"}

\* the n bytes of s that follow its first from bytes
sliceOf(s, from, n) == SubSeq(s, from + 1, from + n)

\* C18: WriteTo writes a header that maps each of the five tape names to
\* the byte length the tape has at the call, then the five tape bodies
\* back to back in the order keys, values, hashes, codes, structure: the
\* bytes after the header are as many as the five lengths together, and
\* slicing them with those lengths gives each tape's bytes back.
C18_HeaderThenBodies ==
    WWritten =>
        \A l \in {bw.lens} :
        \A k \in {tapeBytes(bwb.Keys)}, v \in {tapeBytes(bwb.Values)},
           h \in {tapeBytes(bwb.Hashes)}, c \in {tapeBytes(bwb.Codes)},
           s \in {tapeBytes(bwb.Structure)} :
            /\ DOMAIN l = {"Keys", "Values", "Hashes", "Codes", "Structure"}
            /\ l.Keys = Len(k) /\ l.Values = Len(v) /\ l.Hashes = Len(h)
            /\ l.Codes = Len(c) /\ l.Structure = Len(s)
            /\ Len(bw.body)
                  = l.Keys + l.Values + l.Hashes + l.Codes + l.Structure
            /\ sliceOf(bw.body, 0, l.Keys) = k
            /\ sliceOf(bw.body, l.Keys, l.Values) = v
            /\ sliceOf(bw.body, l.Keys + l.Values, l.Hashes) = h
            /\ sliceOf(bw.body, l.Keys + l.Values + l.Hashes, l.Codes) = c
            /\ sliceOf(bw.body, l.Keys + l.Values + l.Hashes + l.Codes,
                       l.Structure) = s

\* a witness with items on all five tapes was written
C18_Witness ==
    /\ wphase = "written"
    /\ bw.lens.Keys > 0 /\ bw.lens.Values > 0 /\ bw.lens.Hashes > 0
    /\ bw.lens.Codes > 0 /\ bw.lens.Structure > bw.lens.Keys

\* the wire value of the opcode a node of this kind emits
wireValue(kind, hashOnly) ==
    CASE kind = "leaf" -> IF hashOnly THEN 1 ELSE 0
      [] kind = "extension" -> IF hashOnly THEN 3 ELSE 2
      [] kind = "branch" -> IF hashOnly THEN 6 ELSE 4
      [] kind = "contract" -> IF hashOnly THEN 6 ELSE 7
      [] kind = "accountLeaf" -> IF hashOnly THEN 9 ELSE 8
      [] kind = "contractLeaf" -> IF hashOnly THEN 11 ELSE 10

\* the first item an emitter writes to the structure tape
written(w) == w.Structure[1]

\* C21: the opcode values written to the structure tape are fixed (Leaf 0,
\* LeafHash 1, Extension 2, ExtensionHash 3, Branch 4, BranchHash 5, Hash 6,
\* Code 7, AccountLeaf 8, AccountLeafHash 9, ContractLeaf 10,
\* ContractLeafHash 11, EmptyRoot 12) and every emitter writes the value of
\* the opcode it is named after.
C21_OpcodeWireValues ==
    WBuilt =>
        /\ \A n \in {Len(bwb.Keys), Len(bwb.Structure)} :
              /\ written(leaf(n)) = CUint(0)
              /\ written(leafHash(n)) = CUint(1)
              /\ written(extension(<<n>>)) = CUint(2)
              /\ written(extensionHash(<<n>>)) = CUint(3)
              /\ written(branch(n)) = CUint(4)
              /\ written(branchHash(n)) = CUint(5)
              /\ written(hash(n)) = CUint(6)
              /\ written(code) = CUint(7)
              /\ written(accountLeaf(n)) = CUint(8)
              /\ written(accountLeafHash(n)) = CUint(9)
              /\ written(contractLeaf(n)) = CUint(10)
              /\ written(contractLeafHash(n)) = CUint(11)
              /\ written(emptyRootOp) = CUint(12)
        /\ \A i \in 1..Len(bwb.log) :
              bwb.log[i].kind # "account" =>
                  bwb.log[i].op = wireValue(bwb.log[i].kind, bwb.log[i].hashOnly)
        /\ \A ops \in {opcodesOf(bwb.Structure)} :
              /\ \A i \in 1..Len(ops) : ops[i] \in 0..12
              /\ Len(ops) = Cardinality({i \in 1..Len(bwb.log) :
                                            bwb.log[i].kind # "account"})

\* a structure tape holding the opcodes 0, 4, 6, 7 and 10
C21_Witness ==
    /\ WBuilt
    /\ {0, 4, 6, 7, 10} \subseteq
          {opcodesOf(bwb.Structure)[i] : i \in 1..Len(opcodesOf(bwb.Structure))}

(***************************************************************************)
(* Tries as the resolver builds them: short keys in compact form           *)
(***************************************************************************)
RECURSIVE compactKeys(_)
compactKeys(n) ==
    CASE n.t = "short" ->
            shortNode(hexToCompact(n.Key), compactKeys(n.Val))
      [] n.t = "duo" ->
            [n EXCEPT !.child1 = compactKeys(n.child1),
                      !.child2 = compactKeys(n.child2)]
      [] n.t = "full" ->
            fullNode([i \in 1..17 |-> compactKeys(n.Children[i])])
      [] OTHER -> n

noNode == [t |-> "none"]

\* the node of the trie below n that sits at the nibble path given, or
\* noNode when the path ends inside a short key or leaves the trie
RECURSIVE nodeAt(_, _)
nodeAt(n, path) ==
    IF path = <<>> THEN n
    ELSE CASE n.t = "short" ->
                LET key == compactToHex(n.Key)
                IN IF HasPrefix(path, key) THEN nodeAt(n.Val, Drop(path, Len(key)))
                   ELSE noNode
           [] n.t = "duo" ->
                LET ix == childrenIdx(n)
                IN IF path[1] = ix[1] THEN nodeAt(n.child1, Tail(path))
                   ELSE IF path[1] = ix[2] THEN nodeAt(n.child2, Tail(path))
                   ELSE noNode
           [] n.t = "full" -> nodeAt(n.Children[path[1] + 1], Tail(path))
           [] OTHER -> noNode

\* the trie below n with the node at the path replaced by new
RECURSIVE putAt(_, _, _)
putAt(n, path, new) ==
    IF path = <<>> THEN new
    ELSE CASE n.t = "short" ->
                [n EXCEPT !.Val = putAt(n.Val, Drop(path, Len(compactToHex(n.Key))), new)]
           [] n.t = "duo" ->
                IF path[1] = childrenIdx(n)[1]
                THEN [n EXCEPT !.child1 = putAt(n.child1, Tail(path), new)]
                ELSE [n EXCEPT !.child2 = putAt(n.child2, Tail(path), new)]
           [] n.t = "full" ->
                [n EXCEPT !.Children[path[1] + 1] =
                              putAt(n.Children[path[1] + 1], Tail(path), new)]

\* the path of the node whose child slot sits at the path given (a path
\* that nodeAt finds, not empty)
RECURSIVE parentPath(_, _, _)
parentPath(n, path, at) ==
    LET step == IF n.t = "short" THEN Len(compactToHex(n.Key)) ELSE 1
    IN IF step >= Len(path) THEN at
       ELSE parentPath(nodeAt(n, Take(path, step)), Drop(path, step),
                       at \o Take(path, step))

\* Trie.Get(key): found is false when the path ends in a hash reference
\* (the key is not resolved); an absent key is found with a nil value
RECURSIVE Get(_, _)
Get(n, hex) ==
    CASE n.t = "nil" -> [found |-> TRUE, value |-> <<>>]
      [] n.t = "hash" -> [found |-> FALSE, value |-> <<>>]
      [] n.t = "value" -> [found |-> TRUE, value |-> n.v]
      [] n.t = "short" ->
            LET key == compactToHex(n.Key)
            IN IF HasPrefix(hex, key) THEN Get(n.Val, Drop(hex, Len(key)))
               ELSE [found |-> TRUE, value |-> <<>>]
      [] n.t = "duo" ->
            LET ix == childrenIdx(n)
            IN IF hex[1] = ix[1] THEN Get(n.child1, Tail(hex))
               ELSE IF hex[1] = ix[2] THEN Get(n.child2, Tail(hex))
               ELSE [found |-> TRUE, value |-> <<>>]
      [] n.t = "full" -> Get(n.Children[hex[1] + 1], Tail(hex))

(***************************************************************************)
(* Account values, byte for byte: rlp.EncodeToBytes(Account) and           *)
(* rlp.DecodeBytes(v, &ExtAccount)                                         *)
(***************************************************************************)
emptyRootBytes ==
    <<86, 232, 31, 23, 27, 204, 85, 166, 255, 131, 69, 230, 146, 192, 248, 110,
      91, 72, 224, 27, 153, 108, 173, 192, 1, 98, 47, 181, 227, 99, 180, 33>>
emptyCodeHashBytes ==
    <<197, 210, 70, 1, 134, 247, 35, 60, 146, 126, 125, 178, 220, 199, 3, 192,
      229, 0, 182, 83, 202, 130, 39, 59, 123, 250, 216, 4, 93, 133, 164, 112>>

\* the RLP of a byte string and of a list payload
rlpString(b) ==
    IF Len(b) = 1 /\ b[1] < 128 THEN b
    ELSE IF Len(b) <= 55 THEN <<128 + Len(b)>> \o b
    ELSE <<183 + Len(MinBytes(Len(b)))>> \o MinBytes(Len(b)) \o b
rlpList(payload) ==
    IF Len(payload) <= 55 THEN <<192 + Len(payload)>> \o payload
    ELSE <<247 + Len(MinBytes(Len(payload)))>> \o MinBytes(Len(payload)) \o payload

RECURSIVE bytesToInt(_)
bytesToInt(b) == IF b = <<>> THEN 0 ELSE bytesToInt(Front(b)) * 256 + Last(b)

EncodeAccount(nonce, balance, root, codeHash) ==
    rlpList(rlpString(MinBytes(nonce)) \o rlpString(MinBytes(balance))
                \o rlpString(root) \o rlpString(codeHash))
EncodeExtAccount(nonce, balance) ==
    rlpList(rlpString(MinBytes(nonce)) \o rlpString(MinBytes(balance)))

\* one unsigned integer off the front of an RLP payload: its value and the
\* rest, or ok = FALSE (a list, a long string, a truncated or non-canonical
\* item)
decodeUint(p) ==
    IF p = <<>> THEN [ok |-> FALSE, n |-> 0, rest |-> <<>>]
    ELSE IF p[1] < 128 THEN [ok |-> p[1] # 0, n |-> p[1], rest |-> Tail(p)]
    ELSE IF p[1] <= 183
    THEN LET l == p[1] - 128
             b == SubSeq(p, 2, Min2(1 + l, Len(p)))
         IN [ok |-> /\ Len(p) >= 1 + l
                    /\ (l > 0 => b[1] # 0)
                    /\ ~(l = 1 /\ b[1] < 128),
             n |-> bytesToInt(b), rest |-> Drop(p, Min2(1 + l, Len(p)))]
    ELSE [ok |-> FALSE, n |-> 0, rest |-> <<>>]

\* rlp.DecodeBytes(v, &extData) for a v shorter than 60 bytes
DecodeExtAccount(v) ==
    LET isList == v # <<>> /\ v[1] >= 192 /\ v[1] <= 247
        payload == Tail(v)
        n1 == decodeUint(payload)
        n2 == decodeUint(n1.rest)
    IN IF isList /\ Len(payload) = v[1] - 192 /\ n1.ok /\ n2.ok /\ n2.rest = <<>>
       THEN [ok |-> TRUE, Nonce |-> n1.n, Balance |-> n2.n]
       ELSE [ok |-> FALSE, Nonce |-> 0, Balance |-> 0]

(***************************************************************************)
(* accounts.Account (core/types/accounts/account.go), byte for byte.  A    *)
(* *big.Int and a *uint64 are records [nil, n], a []byte a record          *)
(* [nil, b]; Root is an array of 32 bytes.                                 *)
(***************************************************************************)
nilInt == [nil |-> TRUE, n |-> 0]
bigInt(n) == [nil |-> FALSE, n |-> n]
nilSlice == [nil |-> TRUE, b |-> <<>>]
slice(b) == [nil |-> FALSE, b |-> b]
zeroRootBytes == [i \in 1..32 |-> 0]

\* new(Account)
newAccount ==
    [Nonce |-> 0, Balance |-> nilInt, Root |-> zeroRootBytes,
     CodeHash |-> nilSlice, StorageSize |-> nilInt]

AccIsEmptyCodeHash(a) == a.CodeHash.nil \/ a.CodeHash.b = emptyCodeHashBytes
AccIsEmptyRoot(a) == a.Root = emptyRootBytes \/ a.Root = zeroRootBytes

\* a.setDefaultBalance(), a.setDefaultCodeHash(), a.setDefaultRoot()
setDefaultBalance(a) == IF a.Balance.nil THEN [a EXCEPT !.Balance = bigInt(0)] ELSE a
setDefaultCodeHash(a) ==
    IF AccIsEmptyCodeHash(a) THEN [a EXCEPT !.CodeHash = slice(emptyCodeHashBytes)] ELSE a
setDefaultRoot(a) == IF AccIsEmptyRoot(a) THEN [a EXCEPT !.Root = emptyRootBytes] ELSE a

\* a.fill(srcAccount): CodeHash becomes a slice made with the length of the
\* source's (not nil, even for a nil source); Balance.Set dereferences the
\* source's Balance, so a nil one panics
fill(a, src) ==
    [panic |-> src.Balance.nil,
     acc |-> [Nonce |-> src.Nonce,
              Balance |-> bigInt(src.Balance.n),
              Root |-> src.Root,
              CodeHash |-> slice(src.CodeHash.b),
              StorageSize |-> src.StorageSize]]

\* newAccountCopy(srcAccount)
newAccountCopy(src) ==
    LET f == fill(newAccount, src)
    IN [panic |-> f.panic,
        acc |-> setDefaultRoot(setDefaultCodeHash(setDefaultBalance(f.acc)))]

\* rlp.EncodeToBytes(&Account{...}) with the storage size as a fifth field
EncodeAccountWithStorage(nonce, balance, root, codeHash, size) ==
    rlpList(rlpString(MinBytes(nonce)) \o rlpString(MinBytes(balance))
                \o rlpString(root) \o rlpString(codeHash)
                \o rlpString(MinBytes(size)))

\* a.Encode(enableStorageSize): the bytes, or a panic
AccountEncode(a, enableStorageSize) ==
    IF AccIsEmptyCodeHash(a) /\ AccIsEmptyRoot(a)
    THEN IF (a.Balance.nil \/ a.Balance.n = 0) /\ a.Nonce = 0
         THEN [panic |-> FALSE, enc |-> <<192>>]
         ELSE [panic |-> a.Balance.nil,
               enc |-> EncodeExtAccount(a.Nonce, a.Balance.n)]
    ELSE LET c == newAccountCopy(a)
             acc == c.acc
         IN [panic |-> c.panic,
             enc |-> IF ~enableStorageSize \/ acc.StorageSize.nil
                     THEN EncodeAccount(acc.Nonce, acc.Balance.n, acc.Root,
                                        acc.CodeHash.b)
                     ELSE EncodeAccountWithStorage(acc.Nonce, acc.Balance.n,
                              acc.Root, acc.CodeHash.b, acc.StorageSize.n)]

\* the payload of an RLP list that is the whole of enc
decodeList(bs) ==
    IF bs = <<>> \/ bs[1] < 192 THEN [ok |-> FALSE, payload |-> <<>>]
    ELSE IF bs[1] <= 247
    THEN [ok |-> Len(bs) = 1 + (bs[1] - 192), payload |-> Tail(bs)]
    ELSE IF bs[1] = 248 /\ Len(bs) >= 2
    THEN [ok |-> bs[2] > 55 /\ Len(bs) = 2 + bs[2], payload |-> Drop(bs, 2)]
    ELSE [ok |-> FALSE, payload |-> <<>>]

\* one byte string off the front of an RLP payload, and the rest
decodeString(p) ==
    IF p = <<>> THEN [ok |-> FALSE, b |-> <<>>, rest |-> <<>>]
    ELSE IF p[1] < 128 THEN [ok |-> TRUE, b |-> <<p[1]>>, rest |-> Tail(p)]
    ELSE IF p[1] <= 183
    THEN LET l == p[1] - 128
             b == SubSeq(p, 2, Min2(1 + l, Len(p)))
         IN [ok |-> Len(p) >= 1 + l /\ ~(l = 1 /\ b[1] < 128),
             b |-> b, rest |-> Drop(p, Min2(1 + l, Len(p)))]
    ELSE [ok |-> FALSE, b |-> <<>>, rest |-> <<>>]

\* rlp.DecodeBytes(enc, &accountWithoutStorage{}) for fields = 4 and
\* rlp.DecodeBytes(enc, &Account{}) for fields = 5: err is "nil",
\* "too many elements" (the list goes on after the last field) or "rlp"
decodeFields(bs, fields) ==
    LET l == decodeList(bs)
        nonce == decodeUint(l.payload)
        balance == decodeUint(nonce.rest)
        root == decodeString(balance.rest)
        codeHash == decodeString(root.rest)
        size == IF fields = 5 THEN decodeUint(codeHash.rest)
                ELSE [ok |-> TRUE, n |-> 0, rest |-> codeHash.rest]
        ok == /\ l.ok /\ nonce.ok /\ balance.ok
              /\ root.ok /\ Len(root.b) = 32 /\ codeHash.ok /\ size.ok
    IN [err |-> IF ~ok THEN "rlp"
                ELSE IF size.rest # <<>> THEN "too many elements"
                ELSE "nil",
        acc |-> [Nonce |-> nonce.n, Balance |-> bigInt(balance.n),
                 Root |-> root.b, CodeHash |-> slice(codeHash.b),
                 StorageSize |-> IF fields = 5 THEN bigInt(size.n) ELSE nilInt]]

\* a.Decode(enc) on a new Account: the error and the account afterwards
AccountDecode(bs) ==
    IF Len(bs) = 0 THEN [err |-> "nil", acc |-> newAccount]
    ELSE IF Len(bs) = 1
    THEN [err |-> "nil",
          acc |-> [newAccount EXCEPT !.Balance = bigInt(0),
                                     !.CodeHash = slice(emptyCodeHashBytes),
                                     !.Root = emptyRootBytes]]
    ELSE IF Len(bs) < 60
    THEN LET ext == DecodeExtAccount(bs)
         IN IF ~ext.ok THEN [err |-> "rlp", acc |-> newAccount]
            ELSE [err |-> "nil",
                  acc |-> [newAccount EXCEPT !.Nonce = ext.Nonce,
                                             !.Balance = bigInt(ext.Balance),
                                             !.CodeHash = slice(emptyCodeHashBytes),
                                             !.Root = emptyRootBytes]]
    ELSE LET four == decodeFields(bs, 4)
             five == decodeFields(bs, 5)
         IN IF four.err = "nil" THEN four
            ELSE IF four.err # "too many elements"
            THEN [err |-> four.err, acc |-> newAccount]
            ELSE IF five.err # "nil" THEN [err |-> five.err, acc |-> newAccount]
            ELSE five

(***************************************************************************)
(* The streaming resolver.  Keys are scaled down: an account key has the   *)
(* length of the keys of RKeys where the code has 32 bytes, a contract     *)
(* address the length of RContract where the code has 20, and Levels is    *)
(* twice their sum as 104 is twice 52.  Indices (reqIndices, keyIdx,       *)
(* rhIndexLte, rhIndexGt, levels) count from 0 as in the code.             *)
(***************************************************************************)
RKeys ==
    {<<0, 0, 0, 0>>, <<0, 0, 0, 1>>, <<0, 0, 0, 16>>,
     <<16, 0, 0, 0>>, <<18, 0, 0, 0>>, <<32, 0, 0, 0>>}
RContract == <<170>>

KeyLen == Len(CHOOSE k \in RKeys : TRUE)
AddrLen == Len(RContract)
Levels == 2 * (AddrLen + KeyLen)

ResolveRequest(contract, resolveHex, resolvePos, resolveHash, parent) ==
    [contract |-> contract, resolveHex |-> resolveHex,
     resolvePos |-> resolvePos, extResolvePos |-> 0,
     resolveHash |-> resolveHash, resolveParent |-> parent,
     resolved |-> nilNode]

emptyShort == [Key |-> <<>>, Val |-> nilNode]
emptyChildren == [i \in 1..17 |-> nilNode]

NewResolver(hashes, accounts) ==
    [accounts |-> accounts, hashes |-> hashes, requests |-> <<>>,
     resolveHexes |-> <<>>, rhIndexLte |-> -1, rhIndexGt |-> 0,
     reqIndices |-> <<>>, key |-> <<>>, value |-> <<>>, key_set |-> FALSE,
     nodeStack |-> [l \in 0..Levels |-> emptyShort],
     vertical |-> [l \in 0..Levels |-> emptyChildren],
     fillCount |-> [l \in 0..Levels |-> 0],
     startLevel |-> 0, keyIdx |-> 0, h |-> "nil"]

\* the pool of hashers: how many are taken and not returned, and how many
\* returns there were
hasherPool == [out |-> 0, puts |-> 0]
newHasher(pool) == [pool EXCEPT !.out = @ + 1]
returnHasherToPool(pool) == [out |-> pool.out - 1, puts |-> pool.puts + 1]

Less_byPos(ci, cj) == ci.resolvePos < cj.resolvePos

\* tr.Less(i, j) on the requests ci and cj
Less(ci, cj) ==
    LET m == Min2(ci.resolvePos, cj.resolvePos)
        c == Compare(ci.contract, cj.contract)
        c2 == Compare(Take(ci.resolveHex, m), Take(cj.resolveHex, m))
    IN IF c # 0 THEN c < 0
       ELSE IF c2 # 0 THEN c2 < 0
       ELSE ci.resolvePos < cj.resolvePos

AddRequestOf(r, req) ==
    [r EXCEPT !.requests = Append(@, req),
              !.resolveHexes =
                  Append(@, IF req.contract = <<>> THEN req.resolveHex
                            ELSE Take(keybytesToHex(req.contract), 2 * AddrLen)
                                     \o req.resolveHex)]

\* sort.Stable(tr) for fewer than 20 requests: an insertion sort by Less
RECURSIVE sinkRequest(_, _)
sinkRequest(s, j) ==
    IF j > 1 /\ Less(s[j], s[j - 1])
    THEN sinkRequest([s EXCEPT ![j] = s[j - 1], ![j - 1] = s[j]], j - 1)
    ELSE s

RECURSIVE sortRequests(_, _)
sortRequests(s, i) ==
    IF i > Len(s) THEN s ELSE sortRequests(sinkRequest(s, i), i + 1)

\* sort.Sort(tr.resolveHexes)
RECURSIVE sinkHex(_, _)
sinkHex(s, j) ==
    IF j > 1 /\ Compare(s[j], s[j - 1]) < 0
    THEN sinkHex([s EXCEPT ![j] = s[j - 1], ![j - 1] = s[j]], j - 1)
    ELSE s

RECURSIVE sortHexes(_, _)
sortHexes(s, i) ==
    IF i > Len(s) THEN s ELSE sortHexes(sinkHex(s, i), i + 1)

\* mutant of dropPrefixHexes: every sorted hex is kept
dropPrefixHexes_keepsAll(hs, i) == SubSeq(hs, i, Len(hs))

\* the resolve hexes that are not a prefix of their successor
RECURSIVE dropPrefixHexes(_, _)
dropPrefixHexes(hs, i) ==
    IF i > Len(hs) THEN <<>>
    ELSE (IF i = Len(hs) \/ ~HasPrefix(hs[i + 1], hs[i]) THEN <<hs[i]>> ELSE <<>>)
             \o dropPrefixHexes(hs, i + 1)

\* the start key of a request: the contract, then the bytes that hold the
\* first resolvePos nibbles of resolveHex, zero-filled to the key length
startKeyOf(req) ==
    LET nib == Take(req.resolveHex, req.resolvePos)
        padded == nib \o [i \in 1..(2 * KeyLen - Len(nib)) |-> 0]
    IN req.contract \o decodeNibbles(padded)

\* the loop over the sorted requests: acc holds the requests rewritten so
\* far, the indices and the start keys emitted, and the previous emitted
\* request (none while prev = 0)
RECURSIVE emitRequests(_, _, _)
emitRequests(reqs, i, acc) ==
    IF i > Len(reqs) THEN acc
    ELSE LET req == reqs[i]
             prevReq == acc.requests[acc.prev]
             emit == \/ acc.prev = 0
                     \/ req.resolvePos < prevReq.resolvePos
                     \/ req.contract # prevReq.contract
                     \/ ~HasPrefix(Take(req.resolveHex, req.resolvePos),
                                   Take(prevReq.resolveHex, prevReq.resolvePos))
             ext == req.resolvePos + 2 * Len(req.contract)
         IN CHOOSE e \in {emitRequests(reqs, i + 1, a) : a \in
               {IF emit
                THEN [requests |-> Append(acc.requests,
                                          [req EXCEPT !.extResolvePos = ext]),
                      reqIndices |-> Append(acc.reqIndices, i - 1),
                      startkeys |-> Append(acc.startkeys, startKeyOf(req)),
                      fixedbits |-> Append(acc.fixedbits, 4 * ext),
                      prev |-> i]
                ELSE [acc EXCEPT !.requests = Append(@, req)]}} : TRUE

\* tr.PrepareResolveParams(): the resolver afterwards, and the two slices
PrepareResolveParams(r) ==
    IF Len(r.requests) = 0
    THEN [tr |-> r, startkeys |-> <<>>, fixedbits |-> <<>>]
    ELSE LET hexes == dropPrefixHexes(sortHexes(r.resolveHexes, 2), 1)
             start == [requests |-> <<>>, reqIndices |-> r.reqIndices,
                       startkeys |-> <<>>, fixedbits |-> <<>>, prev |-> 0]
             result(e) ==
                 [tr |-> [r EXCEPT !.requests = e.requests,
                                   !.resolveHexes = hexes,
                                   !.reqIndices = e.reqIndices,
                                   !.startLevel = e.requests[1].extResolvePos],
                  startkeys |-> e.startkeys, fixedbits |-> e.fixedbits]
         IN CHOOSE p \in {result(e) : e \in
               {emitRequests(sorted, 1, start) : sorted \in
                  {sortRequests(r.requests, 2)}}} : TRUE

(***************************************************************************)
(* finishPreviousKey                                                       *)
(***************************************************************************)
\* full.duoCopy(): the duo node of a full node's two children
duoCopy(children) ==
    LET S == {i \in 0..16 : children[i + 1] # nilNode}
        i1 == SetMin(S)
        i2 == SetMin(S \ {i1})
    IN duoNode(i1, i2, children[i1 + 1], children[i2 + 1])

\* mutant of adjustRhIndices: the cursors stay below a hex equal to the key
RECURSIVE adjustRhIndices_belowEqual(_, _, _, _)
adjustRhIndices_belowEqual(hexes, hex, gt, lte) ==
    IF gt < Len(hexes) /\ Compare(hex, hexes[gt + 1]) = 1
    THEN adjustRhIndices_belowEqual(hexes, hex, gt + 1, lte + 1)
    ELSE [rhIndexGt |-> gt, rhIndexLte |-> lte]

\* the adjustment of rhIndexGt and rhIndexLte to the current key
RECURSIVE adjustRhIndices(_, _, _, _)
adjustRhIndices(hexes, hex, gt, lte) ==
    IF gt < Len(hexes) /\ Compare(hex, hexes[gt + 1]) # -1
    THEN adjustRhIndices(hexes, hex, gt + 1, lte + 1)
    ELSE [rhIndexGt |-> gt, rhIndexLte |-> lte]

\* mutant of rhPrefixLenOf: the neighbour above the key is left out
rhPrefixLenOf_lteOnly(hexes, hex, gt, lte) ==
    IF lte >= 0 THEN prefixLen(hex, hexes[lte + 1]) ELSE 0

\* how much of the current key lies on a path to resolve
rhPrefixLenOf(hexes, hex, gt, lte) ==
    LET a == IF lte >= 0 THEN prefixLen(hex, hexes[lte + 1]) ELSE 0
        b == IF gt < Len(hexes) THEN prefixLen(hex, hexes[gt + 1]) ELSE 0
    IN IF b > a THEN b ELSE a

\* mutant of clearAbove: a folded level keeps its children
clearAbove_keepsChildren(st, level, req) ==
    IF level >= req.extResolvePos
    THEN [st EXCEPT !.nodeStack[level + 1] = emptyShort,
                    !.fillCount[level + 1] = 0]
    ELSE st

\* mutant of clearAbove: a folded level keeps its short node
clearAbove_keepsShort(st, level, req) ==
    IF level >= req.extResolvePos
    THEN [st EXCEPT !.fillCount[level + 1] = 0,
                    !.vertical[level + 1] = emptyChildren]
    ELSE st

\* lines 242-251 and 284-293: level+1 is emptied once it is folded
clearAbove(st, level, req) ==
    IF level >= req.extResolvePos
    THEN [st EXCEPT !.nodeStack[level + 1] = emptyShort,
                    !.fillCount[level + 1] = 0,
                    !.vertical[level + 1] = emptyChildren]
    ELSE st

\* the subtree a fold keeps in place of its hash: on a resolving path, and
\* at level 5 when the resolver was made with hashes
keepsSubtree(r, level, rhPrefixLen) ==
    level < rhPrefixLen \/ (r.hashes /\ level = 5)

\* one turn of the loop of lines 228-294; st is the resolver with a panic flag
foldLevel(st, level, req, hex, rhPrefixLen) ==
    LET keynibble == hex[level + 1]
    IN IF st.fillCount[level + 1] = 1
       THEN LET short == st.nodeStack[level + 1]
                up == [Key |-> hexToCompact(<<keynibble>> \o compactToHex(short.Key)),
                       Val |-> short.Val]
            IN clearAbove(
                 [st EXCEPT !.vertical[level][keynibble + 1] =
                                shortNode(short.Key, short.Val),
                            !.nodeStack[level] =
                                IF st.fillCount[level] = 0 THEN up ELSE @,
                            !.fillCount[level] = @ + 1],
                 level, req)
       ELSE LET full == st.vertical[level + 1]
                h == hashOf(fullNode(full), FALSE, TRUE)
                c == IF keepsSubtree(st, level, rhPrefixLen)
                     THEN IF st.fillCount[level + 1] = 2 THEN duoCopy(full)
                          ELSE fullNode(full)
                     ELSE hashNode(h.store)
                first == st.fillCount[level] = 0
            IN IF h.len < HashLength THEN [st EXCEPT !.panic = TRUE]
               ELSE clearAbove(
                      [st EXCEPT !.nodeStack[level] =
                                     IF first
                                     THEN [Key |-> hexToCompact(<<keynibble>>),
                                           Val |-> c]
                                     ELSE @,
                                 !.vertical[level][keynibble + 1] = c,
                                 !.fillCount[level] = @ + 1],
                      level, req)

RECURSIVE foldLevels(_, _, _, _, _, _)
foldLevels(st, level, stopLevel, req, hex, rhPrefixLen) ==
    IF level < stopLevel \/ st.panic THEN st
    ELSE CHOOSE f \in {foldLevels(nx, level - 1, stopLevel, req, hex, rhPrefixLen) :
                          nx \in {foldLevel(st, level, req, hex, rhPrefixLen)}} : TRUE

\* mutant of rootOf: a level with one child gives no root
rootOf_noneFromOne(st, req) ==
    LET fc == st.fillCount[req.extResolvePos]
    IN IF fc = 2 THEN duoCopy(st.vertical[req.extResolvePos])
       ELSE IF fc > 2 THEN fullNode(st.vertical[req.extResolvePos])
       ELSE nilNode

\* mutant of rootOf: two children make a full node
rootOf_fullFromTwo(st, req) ==
    LET fc == st.fillCount[req.extResolvePos]
    IN IF fc = 1
       THEN shortNode(st.nodeStack[req.extResolvePos].Key,
                      st.nodeStack[req.extResolvePos].Val)
       ELSE IF fc >= 2 THEN fullNode(st.vertical[req.extResolvePos])
       ELSE nilNode

\* mutant of rootOf: the one child is put below its nibble as it is
rootOf_childBelowNibble(st, req) ==
    LET fc == st.fillCount[req.extResolvePos]
        full == st.vertical[req.extResolvePos]
        i == CHOOSE i \in 1..17 : fc = 1 => full[i] # nilNode
    IN IF fc = 1 THEN shortNode(hexToCompact(<<i - 1>>), full[i])
       ELSE IF fc = 2 THEN duoCopy(full)
       ELSE IF fc > 2 THEN fullNode(full)
       ELSE nilNode

\* lines 297-304: the root folded for a request, nilNode when nothing was
rootOf(st, req) ==
    LET fc == st.fillCount[req.extResolvePos]
    IN IF fc = 1
       THEN shortNode(st.nodeStack[req.extResolvePos].Key,
                      st.nodeStack[req.extResolvePos].Val)
       ELSE IF fc = 2 THEN duoCopy(st.vertical[req.extResolvePos])
       ELSE IF fc > 2 THEN fullNode(st.vertical[req.extResolvePos])
       ELSE nilNode

\* lines 310-327, on hashing the root without a check
hashChecked_unchecked(req, h) == TRUE

\* lines 310-327: a hashed root must equal the expected hash, an embedded
\* root is taken only when no hash is expected
hashChecked(req, h) ==
    IF h.len = HashLength THEN req.resolveHash = h.store
    ELSE req.resolveHash = nilBytes

\* mutant of spliceRoot: the slot is written whatever it holds
spliceRoot_anySlot(trie, req, root) ==
    IF req.resolveParent.isNil THEN root
    ELSE LET parent == nodeAt(trie, req.resolveParent.path)
             idx == req.resolveHex[req.resolvePos]
             new ==
               CASE parent.t = "short" -> [parent EXCEPT !.Val = root]
                 [] parent.t = "duo" ->
                      IF idx = childrenIdx(parent)[1]
                      THEN [parent EXCEPT !.child1 = root]
                      ELSE [parent EXCEPT !.child2 = root]
                 [] parent.t = "full" -> [parent EXCEPT !.Children[idx + 1] = root]
                 [] OTHER -> parent
         IN putAt(trie, req.resolveParent.path, new)

\* lines 340-372: the root goes into the slot of the parent if that slot
\* holds a hash reference
spliceRoot(trie, req, root) ==
    IF req.resolveParent.isNil
    THEN IF trie.t = "hash" THEN root ELSE trie
    ELSE LET parent == nodeAt(trie, req.resolveParent.path)
             idx == req.resolveHex[req.resolvePos]
             new ==
               CASE parent.t = "short" ->
                      IF parent.Val.t = "hash" THEN [parent EXCEPT !.Val = root]
                      ELSE parent
                 [] parent.t = "duo" ->
                      IF idx = childrenIdx(parent)[1] /\ parent.child1.t = "hash"
                      THEN [parent EXCEPT !.child1 = root]
                      ELSE IF idx = childrenIdx(parent)[2] /\ parent.child2.t = "hash"
                      THEN [parent EXCEPT !.child2 = root]
                      ELSE parent
                 [] parent.t = "full" ->
                      IF parent.Children[idx + 1].t = "hash"
                      THEN [parent EXCEPT !.Children[idx + 1] = root]
                      ELSE parent
                 [] OTHER -> parent
         IN putAt(trie, req.resolveParent.path, new)

\* tr.finishPreviousKey(k), with k = <<>> for nil: the resolver and the
\* trie afterwards, and the error returned ("nil" for none, "panic" when
\* the call panics)
finishPreviousKey(r, trie, k) ==
    LET pLen == prefixLen(k, r.key)
        sameHigh == k # <<>> /\ k[pLen + 1] \div 16 = r.key[pLen + 1] \div 16
        stopLevel == 2 * pLen + (IF sameHigh THEN 1 ELSE 0)
        ri == r.reqIndices[r.keyIdx + 1] + 1
        req == r.requests[ri]
        startLevel == Max2(Max2(r.startLevel, req.extResolvePos), stopLevel)
        hex == keybytesToHex(r.key)
        ix == adjustRhIndices(r.resolveHexes, hex, r.rhIndexGt, r.rhIndexLte)
        rhPrefixLen == rhPrefixLenOf(r.resolveHexes, hex, ix.rhIndexGt, ix.rhIndexLte)
        st0 == [panic |-> FALSE,
                hashes |-> r.hashes,
                nodeStack |-> [r.nodeStack EXCEPT ![startLevel + 1] =
                                 [Key |-> hexToCompact(Drop(hex, startLevel + 1)),
                                  Val |-> valueNode(r.value)]],
                vertical |-> r.vertical,
                fillCount |-> [r.fillCount EXCEPT ![startLevel + 1] = 1]]
        folded(st) ==
            [r EXCEPT !.nodeStack = st.nodeStack, !.vertical = st.vertical,
                      !.fillCount = st.fillCount,
                      !.rhIndexGt = ix.rhIndexGt, !.rhIndexLte = ix.rhIndexLte,
                      !.startLevel = stopLevel]
        finalize(st, root) ==
            IF root = nilNode
            THEN [tr |-> folded(st), rt |-> trie,
                  err |-> "Resolve returned nil root"]
            ELSE IF ~hashChecked(req, hashOf(root, req.resolvePos = 0, TRUE))
            THEN [tr |-> folded(st), rt |-> trie, err |-> "Resolving wrong hash"]
            ELSE [tr |-> [folded(st) EXCEPT
                             !.requests[ri].resolved = root,
                             !.nodeStack = [l \in 0..Levels |-> emptyShort],
                             !.vertical = [l \in 0..Levels |-> emptyChildren],
                             !.fillCount = [l \in 0..Levels |-> 0]],
                  rt |-> spliceRoot(trie, req, root),
                  err |-> "nil"]
        finish(st) ==
            IF st.panic THEN [tr |-> folded(st), rt |-> trie, err |-> "panic"]
            ELSE IF k # <<>> THEN [tr |-> folded(st), rt |-> trie, err |-> "nil"]
            ELSE CHOOSE f \in {finalize(st, root) : root \in {rootOf(st, req)}} : TRUE
    IN IF k # <<>> /\ pLen >= Len(r.key)
       THEN [tr |-> r, rt |-> trie, err |-> "panic"]
       ELSE CHOOSE f \in {finish(st) : st \in
               {foldLevels(st0, startLevel, stopLevel, req, hex, rhPrefixLen)}} : TRUE

(***************************************************************************)
(* Walker, MultiWalk and ResolveWithDb                                     *)
(***************************************************************************)
\* lines 416-443: the value kept for a key; ok is false when the short form
\* does not decode
normalizeValue_copy(r, v) == [ok |-> TRUE, value |-> v]

\* the value Walker keeps for the raw value v, or ok = FALSE when v does
\* not decode
normalizeValue(r, v) ==
    IF ~r.accounts THEN [ok |-> TRUE, value |-> v]
    ELSE IF Len(v) = 1
    THEN [ok |-> TRUE,
          value |-> EncodeAccount(0, 0, emptyRootBytes, emptyCodeHashBytes)]
    ELSE IF Len(v) < 60
    THEN LET ext == DecodeExtAccount(v)
         IN [ok |-> ext.ok,
             value |-> EncodeAccount(ext.Nonce, ext.Balance, emptyRootBytes,
                                     emptyCodeHashBytes)]
    ELSE [ok |-> TRUE, value |-> v]

keyIdxChanged_never(r, keyIdx) == FALSE

\* the pair handed to Walker belongs to another request than the last
keyIdxChanged(r, keyIdx) == keyIdx # r.keyIdx

\* tr.Walker(keyIdx, k, v): the resolver and the trie afterwards, and the
\* error returned
Walker(r, trie, keyIdx, k, v) ==
    LET changed == keyIdxChanged(r, keyIdx)
        keyLen == IF r.accounts THEN KeyLen ELSE AddrLen + KeyLen
        record(g) ==
            LET nv == normalizeValue(r, v)
            IN IF g.err # "nil" THEN g
               ELSE IF ~nv.ok THEN [tr |-> [g.tr EXCEPT !.key = Take(k, keyLen)],
                                    rt |-> g.rt, err |-> "rlp"]
               ELSE [tr |-> [g.tr EXCEPT !.key = Take(k, keyLen),
                                         !.value = nv.value,
                                         !.key_set = TRUE],
                     rt |-> g.rt, err |-> "nil"]
        second(f) ==
            LET r1 == IF changed
                      THEN [f.tr EXCEPT !.key_set = FALSE, !.keyIdx = keyIdx]
                      ELSE r
            IN IF f.err # "nil" THEN f
               ELSE IF Len(v) = 0 THEN [tr |-> r1, rt |-> f.rt, err |-> "nil"]
               ELSE CHOOSE w \in {record(g) : g \in
                       {IF r1.key_set THEN finishPreviousKey(r1, f.rt, k)
                        ELSE [tr |-> r1, rt |-> f.rt, err |-> "nil"]}} : TRUE
    IN CHOOSE w \in {second(f) : f \in
          {IF changed /\ r.key_set THEN finishPreviousKey(r, trie, <<>>)
           ELSE [tr |-> r, rt |-> trie, err |-> "nil"]}} : TRUE

\* db.MultiWalk: one cursor moves up the bucket; a key below the range of
\* the current start key is skipped, a key inside it is handed to the
\* walker with the index of the start key, a key above it moves on to the
\* next start key
RECURSIVE multiWalk(_, _, _, _, _)
multiWalk(entries, i, startkeys, fixedbits, idx) ==
    IF i > Len(entries) \/ idx >= Len(startkeys) THEN <<>>
    ELSE LET n == fixedbits[idx + 1] \div 4
             c == Compare(Take(keyNibbles(entries[i].k), n),
                          Take(keyNibbles(startkeys[idx + 1]), n))
         IN IF c < 0 THEN multiWalk(entries, i + 1, startkeys, fixedbits, idx)
            ELSE IF c > 0 THEN multiWalk(entries, i, startkeys, fixedbits, idx + 1)
            ELSE <<[keyIdx |-> idx, k |-> entries[i].k, v |-> entries[i].v]>>
                     \o multiWalk(entries, i + 1, startkeys, fixedbits, idx)

\* the entries of a bucket in key order
RECURSIVE sortedEntries(_)
sortedEntries(E) ==
    IF E = {} THEN <<>>
    ELSE LET m == CHOOSE x \in E : \A y \in E : Compare(x.k, y.k) <= 0
         IN <<m>> \o sortedEntries(E \ {m})

(***************************************************************************)
(* The buckets, tries and requests the resolver is run on                  *)
(***************************************************************************)
MaxDbKeys == 3
MaxRequests == 3

SomeRootBytes == [i \in 1..32 |-> 17]
SomeCodeHashBytes == [i \in 1..32 |-> 34]

\* what the bucket holds for a key: for accounts the one-byte form, the
\* short form, the full form and a short form that does not decode; for
\* storage short and long values; and a deleted entry (no bytes)
dbValue(accounts, k) ==
    IF accounts
    THEN CASE k = <<0, 0, 0, 0>> -> <<192>>
           [] k = <<0, 0, 0, 1>> -> EncodeExtAccount(1, 10)
           [] k = <<0, 0, 0, 16>> ->
                  EncodeAccount(2, 300, SomeRootBytes, SomeCodeHashBytes)
           [] k = <<16, 0, 0, 0>> -> EncodeExtAccount(0, 300)
           [] k = <<18, 0, 0, 0>> -> <<>>
           [] k = <<32, 0, 0, 0>> -> <<193, 1>>
           [] OTHER -> EncodeExtAccount(3, 7)
    ELSE CASE k = <<0, 0, 0, 0>> -> ShortValue
           [] k = <<0, 0, 0, 1>> -> <<1, 2>>
           [] k = <<0, 0, 0, 16>> -> LongValue
           [] k = <<16, 0, 0, 0>> -> ShortValue
           [] k = <<18, 0, 0, 0>> -> <<>>
           [] k = <<32, 0, 0, 0>> -> LongValue
           [] OTHER -> LongValue

\* what the trie held for a key when the requests were made: the value of
\* the bucket as the walker keeps it, and for the entry deleted since and
\* the entry that does not decode a value the bucket no longer gives
trieValue(accounts, k) ==
    LET v == dbValue(accounts, k)
        nv == normalizeValue([accounts |-> accounts], v)
    IN IF v = <<>> \/ ~nv.ok
       THEN (IF accounts THEN EncodeAccount(5, 5, emptyRootBytes, emptyCodeHashBytes)
             ELSE <<9>>)
       ELSE nv.value

fullTrieOf(accounts, K) ==
    IF K = {} THEN nilNode
    ELSE compactKeys(buildTrie({[k |-> keyNibbles(k),
                                 v |-> valueNode(trieValue(accounts, k))] : k \in K}, 0))

wrongHash == Keccak(RStr(<<0>>))

RPositions == {0, 1}
RVariants == {"right", "wrong", "none"}

\* a request for the slot at resolveHex[:pos] of the trie full: it names
\* the hash of the subtree there (or no hash when the subtree is embedded
\* in its parent), a wrong hash, or no hash
requestFor(accounts, full, key, pos, variant) ==
    LET hex == keybytesToHex(key)
        slot == nodeAt(full, Take(hex, pos))
        h == hashOf(slot, pos = 0, TRUE)
        right == IF h.len = HashLength THEN h.store ELSE nilBytes
    IN ResolveRequest(IF accounts THEN <<>> ELSE RContract, hex, pos,
            CASE variant = "right" -> right
              [] variant = "wrong" -> wrongHash
              [] variant = "none" -> nilBytes,
            [isNil |-> pos = 0,
             path |-> IF pos = 0 THEN <<>>
                      ELSE parentPath(full, Take(hex, pos), <<>>)])

hasSlot(full, key, pos) ==
    nodeAt(full, Take(keybytesToHex(key), pos)).t \in {"short", "duo", "full"}

\* the slots of two requests are the same or lie apart
slotsApart(a, b) ==
    LET pa == Take(a.resolveHex, a.resolvePos)
        pb == Take(b.resolveHex, b.resolvePos)
    IN pa = pb \/ (~HasPrefix(pa, pb) /\ ~HasPrefix(pb, pa))

sameSlot(a, b) ==
    Take(a.resolveHex, a.resolvePos) = Take(b.resolveHex, b.resolvePos)

\* the trie the requests are made for: the full trie with each requested
\* subtree that is not embedded replaced by its hash
RECURSIVE hideSlots(_, _, _)
hideSlots(full, trie, reqs) ==
    IF reqs = <<>> THEN trie
    ELSE LET path == Take(reqs[1].resolveHex, reqs[1].resolvePos)
             h == hashOf(nodeAt(full, path), reqs[1].resolvePos = 0, TRUE)
         IN CHOOSE n \in {hideSlots(full, hidden, Tail(reqs)) : hidden \in
               {IF h.len = HashLength THEN putAt(trie, path, hashNode(h.store))
                ELSE trie}} : TRUE

RECURSIVE RequestSeqs(_, _)
RequestSeqs(one, n) ==
    IF n = 0 THEN {<<>>}
    ELSE LET shorter == RequestSeqs(one, n - 1)
         IN shorter \cup
              {Append(q, a) : <<q, a>> \in
                  {y \in shorter \X one :
                      /\ Len(y[1]) = n - 1
                      /\ \A i \in 1..Len(y[1]) :
                            /\ y[1][i] # y[2]
                            /\ slotsApart(y[1][i].req, y[2].req)
                            /\ n > 2 =>
                                  /\ ~sameSlot(y[1][i].req, y[2].req)
                                  /\ \A j \in 1..Len(y[1]) : i # j =>
                                        ~sameSlot(y[1][i].req, y[1][j].req)
                            /\ y[1][i].variant = "right" \/ y[2].variant = "right"}}

\* the sequences of requests a caller adds: up to MaxRequests requests for
\* slots of the trie, each for one of the keys given, at most one of them
\* with a hash that is not the slot's; two requests may be for one slot,
\* more than two are for slots that all differ
RequestsFor(accounts, full, keys) ==
    LET one == {[req |-> requestFor(accounts, full, x[1], x[2], x[3]),
                 variant |-> x[3]] :
                   x \in {x \in keys \X RPositions \X RVariants :
                             hasSlot(full, x[1], x[2])}}
    IN {[i \in 1..Len(q) |-> q[i].req] : q \in RequestSeqs(one, MaxRequests)}

\* the keys requests are made for: the keys of the trie and one it lacks
RequestKeys(K) ==
    K \cup (IF K = RKeys THEN {}
            ELSE {CHOOSE k \in RKeys \ K :
                    \A j \in RKeys \ K : Compare(k, j) <= 0})

RInit ==
    /\ rphase = "new"
    /\ \E accounts \in BOOLEAN :
       \E hashes \in (IF accounts THEN BOOLEAN ELSE {FALSE}) :
       \E K \in {K \in SUBSET RKeys : Cardinality(K) <= MaxDbKeys} :
       \E full \in {fullTrieOf(accounts, K)} :
             /\ tr = NewResolver(hashes, accounts)
             /\ rdb = {[k |-> (IF accounts THEN <<>> ELSE RContract) \o k,
                        v |-> dbValue(accounts, k)] : k \in K}
             /\ rpend \in RequestsFor(accounts, full, RequestKeys(K))
             /\ rt = hideSlots(full, full, rpend)
    /\ rparams = <<>>
    /\ rpool = hasherPool
    /\ rwalk = <<>>
    /\ rerr = "nil"
    /\ WIdle /\ HIdle /\ AIdle /\ OIdle

\* tr.AddRequest(req) for the next request of the caller
AddRequest ==
    /\ rphase = "new" /\ rpend # <<>>
    /\ tr' = AddRequestOf(tr, Head(rpend))
    /\ rpend' = Tail(rpend)
    /\ UNCHANGED <<rphase, rt, rdb, rparams, rwalk, rerr, rpool>>
    /\ UNCHANGED <<wvars, hvars, avars, ovars>>

\* tr.ResolveWithDb(db, blockNr) up to its call of MultiWalk
ResolveWithDb ==
    /\ rphase = "new" /\ rpend = <<>>
    /\ rpool' = newHasher(rpool)
    /\ \E p \in {PrepareResolveParams([tr EXCEPT !.h = "hasher"])} :
          /\ tr' = p.tr
          /\ rparams' = [startkeys |-> p.startkeys, fixedbits |-> p.fixedbits]
          /\ rwalk' = multiWalk(sortedEntries(rdb), 1, p.startkeys, p.fixedbits, 0)
    /\ rphase' = "walking"
    /\ UNCHANGED <<rt, rdb, rpend, rerr>>
    /\ UNCHANGED <<wvars, hvars, avars, ovars>>

\* MultiWalk hands the next pair to tr.Walker; an error ends the walk and
\* is what ResolveWithDb returns
WalkerCall ==
    /\ rphase = "walking" /\ rwalk # <<>>
    /\ \E w \in {Walker(tr, rt, Head(rwalk).keyIdx, Head(rwalk).k, Head(rwalk).v)} :
          /\ tr' = w.tr
          /\ rt' = w.rt
          /\ rerr' = w.err
          /\ rphase' = IF w.err = "nil" THEN "walking" ELSE "returned"
          /\ rpool' = IF w.err = "nil" THEN rpool ELSE returnHasherToPool(rpool)
    /\ rwalk' = Tail(rwalk)
    /\ UNCHANGED <<rdb, rpend, rparams>>
    /\ UNCHANGED <<wvars, hvars, avars, ovars>>

\* MultiWalk is through the bucket: ResolveWithDb returns its nil error
ResolveReturns ==
    /\ rphase = "walking" /\ rwalk = <<>>
    /\ rphase' = "returned"
    /\ rpool' = returnHasherToPool(rpool)
    /\ UNCHANGED <<tr, rt, rdb, rpend, rparams, rwalk, rerr>>
    /\ UNCHANGED <<wvars, hvars, avars, ovars>>

RNext == AddRequest \/ ResolveWithDb \/ WalkerCall \/ ResolveReturns

SpecR == RInit /\ [][RNext]_vars

(***************************************************************************)
(* Claims about the resolver                                               *)
(***************************************************************************)
RReturned == rphase = "returned"

\* the requests PrepareResolveParams emitted a start key for
emittedRequests == {tr.requests[tr.reqIndices[j] + 1] : j \in 1..Len(tr.reqIndices)}

\* the keys of the bucket with a non-empty value in the range of a request
rangeOf(req) ==
    {e \in rdb :
        /\ Len(e.v) > 0
        /\ Take(keyNibbles(e.k), req.extResolvePos) =
              keyNibbles(req.contract) \o Take(req.resolveHex, req.resolvePos)}

\* what a Get of the key of a request has to return: the value the walker
\* keeps for the key, nothing for a key the bucket lacks
originalValue(req) ==
    LET E == {e \in rdb : keybytesToHex(e.k) =
                              keyNibbles(req.contract) \o req.resolveHex}
    IN IF E = {} THEN <<>>
       ELSE normalizeValue(tr, (CHOOSE e \in E : TRUE).v).value

\* C9: when ResolveWithDb has returned nil, every request that was given a
\* start key and whose range holds a key with a non-empty value is
\* finalized: resolved is set, its slot no longer holds a hash reference
\* and a Get of its key finds the original value; the last request of the
\* walk included.
C9_ReturnsNilAllFinalized ==
    (RReturned /\ rerr = "nil") =>
        \A req \in emittedRequests :
            rangeOf(req) # {} =>
                /\ req.resolved # nilNode
                /\ nodeAt(rt, Take(req.resolveHex, req.resolvePos)).t # "hash"
                /\ Get(rt, req.resolveHex) =
                      [found |-> TRUE, value |-> originalValue(req)]

\* request i is written in this step
resolvedWritten(i) == tr'.requests[i].resolved # tr.requests[i].resolved

\* C10: during the walk a root is put into req.resolved, and the trie is
\* changed, only in a step in which the root's hash was found equal to
\* req.resolveHash, or in which the root is embedded (shorter than 32
\* bytes) and req.resolveHash is nil; when finishPreviousKey returns one
\* of its errors neither a request nor the trie has been written.
C10_WrittenOnlyWhenChecked ==
    [][rphase = "walking" =>
         /\ \A i \in 1..Len(tr.requests) :
              resolvedWritten(i) =>
                 LET req == tr.requests[i]
                     h == hashOf(tr'.requests[i].resolved, req.resolvePos = 0, TRUE)
                 IN \/ h.len = HashLength /\ req.resolveHash = h.store
                    \/ h.len < HashLength /\ req.resolveHash = nilBytes
         /\ rt' # rt => \E i \in 1..Len(tr.requests) : resolvedWritten(i)
         /\ rerr' \in {"Resolving wrong hash", "Resolve returned nil root"} =>
              /\ rt' = rt
              /\ \A i \in 1..Len(tr.requests) : ~resolvedWritten(i)
         /\ (rwalk # <<>> /\ Head(rwalk).keyIdx # tr.keyIdx /\ tr.key_set) =>
              \/ resolvedWritten(tr.reqIndices[tr.keyIdx + 1] + 1)
              \/ rerr' \in {"Resolving wrong hash", "panic"}
      ]_vars

\* a request whose root was hashed, compared and spliced into a slot that
\* held the hash
C10_Witness ==
    \E i \in 1..Len(tr.requests) :
        LET req == tr.requests[i]
        IN /\ rphase = "walking"
           /\ req.resolved # nilNode
           /\ req.resolveHash # nilBytes
           /\ req.resolvePos = 1
           /\ nodeAt(rt, Take(req.resolveHex, req.resolvePos)) = req.resolved

\* the trie as it was when ResolveWithDb was called: the trie of the
\* bucket's keys with the slot of every request holding its hash reference
originalTrie ==
    LET K == {Drop(e.k, IF tr.accounts THEN 0 ELSE AddrLen) : e \in rdb}
        full == fullTrieOf(tr.accounts, K)
    IN hideSlots(full, full, tr.requests \o rpend)

\* C11: when ResolveWithDb has returned "Resolving wrong hash" the trie is
\* the trie it was called on: every slot that held a hash reference holds
\* it still, the slots of the requests finalized before the failing one
\* included.
C11_FailedCheckLeavesTrie ==
    (RReturned /\ rerr = "Resolving wrong hash") => rt = originalTrie

\* the subtree a request is for, built from the keys of the bucket in its
\* range with the values the walker keeps
rangeTrie(req) ==
    compactKeys(buildTrie(
        {[k |-> keyNibbles(Drop(e.k, Len(req.contract))),
          v |-> valueNode(normalizeValue(tr, e.v).value)] : e \in rangeOf(req)},
        req.resolvePos))

\* Walker is called with a pair of another request while a key is pending
keyIdxChanges ==
    /\ rphase = "walking" /\ rwalk # <<>>
    /\ Head(rwalk).keyIdx # tr.keyIdx /\ tr.key_set

\* C20: the hasher ResolveWithDb acquires is returned to the pool exactly
\* once on every exit path (nil, a returned error, a panic), and once
\* ResolveWithDb has returned the resolver holds no reference to it.
C20_HasherReturnedAndDropped ==
    RReturned => (rpool.out = 0 /\ rpool.puts = 1 /\ tr.h = "nil")

\* C12: a call of Walker with another keyIdx while a key is pending
\* finalizes the request of the old keyIdx, and it only: the root written
\* is checked against the old request's hash at its position and is the
\* subtree of exactly the keys of the old request's range, so the first
\* key of the new request is not folded into it; the stack is empty when
\* the new key is recorded; when finalizing fails nothing of the new
\* request is recorded; and no request is written a second time.
C12_KeyIdxChangeFinalizesOld ==
    [][/\ keyIdxChanges =>
            LET old == tr.reqIndices[tr.keyIdx + 1] + 1
                req == tr.requests[old]
                root == tr'.requests[old].resolved
            IN IF rerr' \in {"nil", "rlp"}
               THEN /\ resolvedWritten(old)
                    /\ \A i \in 1..Len(tr.requests) : i # old => ~resolvedWritten(i)
                    /\ hashChecked(req, hashOf(root, req.resolvePos = 0, TRUE))
                    /\ hashOf(root, req.resolvePos = 0, TRUE) =
                          hashOf(rangeTrie(req), req.resolvePos = 0, TRUE)
                    /\ tr'.keyIdx = Head(rwalk).keyIdx
                    /\ \A l \in 0..Levels : tr'.fillCount[l] = 0
                    /\ tr'.key_set = (Len(Head(rwalk).v) > 0 /\ rerr' = "nil")
                    /\ tr'.key_set => tr'.key = Head(rwalk).k
               ELSE /\ tr'.requests = tr.requests
                    /\ tr'.key = tr.key /\ tr'.value = tr.value
                    /\ tr'.keyIdx = tr.keyIdx
       /\ \A i \in 1..Len(tr.requests) :
             (rphase = "walking" /\ resolvedWritten(i)) =>
                 tr.requests[i].resolved = nilNode
      ]_vars

\* the walk has gone from one request to the next: the old request is
\* finalized and the first key of the new one is pending
C12_Witness ==
    /\ rphase = "walking" /\ tr.keyIdx > 0 /\ tr.key_set
    /\ tr.requests[tr.reqIndices[tr.keyIdx] + 1].resolved # nilNode
    /\ tr.requests[tr.reqIndices[tr.keyIdx + 1] + 1].resolved = nilNode

(***************************************************************************)
(* One slot resolved and flushed: the requests are for one slot of a trie  *)
(* that agrees with the bucket, and when MultiWalk is through the caller   *)
(* flushes the walk with tr.finishPreviousKey(nil)                         *)
(***************************************************************************)
MaxFKeys == 5

\* the keys of the bucket: the keys of RKeys whose value the walker keeps
\* (not deleted, and decodable), and two keys that meet at the last nibble
\* as the first two keys of RKeys do
FKeys(accounts) ==
    {k \in RKeys : /\ dbValue(accounts, k) # <<>>
                   /\ normalizeValue([accounts |-> accounts],
                                     dbValue(accounts, k)).ok}
        \cup {<<16, 0, 0, 2>>, <<16, 0, 0, 3>>}

\* one or two requests for one slot, each with the hash of the slot; two
\* requests are added in the order of their keys
FRequestsFor(accounts, full, keys) ==
    LET one == {requestFor(accounts, full, x[1], x[2], "right") :
                   x \in {x \in keys \X RPositions : hasSlot(full, x[1], x[2])}}
    IN {<<a>> : a \in one}
         \cup {<<y[1], y[2]>> : y \in {y \in one \X one :
                                          /\ sameSlot(y[1], y[2])
                                          /\ Compare(y[1].resolveHex,
                                                     y[2].resolveHex) < 0}}

FInit ==
    /\ rphase = "new"
    /\ \E accounts \in BOOLEAN :
       \E hashes \in (IF accounts THEN BOOLEAN ELSE {FALSE}) :
       \E K \in {K \in SUBSET FKeys(accounts) : Cardinality(K) <= MaxFKeys} :
       \E full \in {fullTrieOf(accounts, K)} :
             /\ tr = NewResolver(hashes, accounts)
             /\ rdb = {[k |-> (IF accounts THEN <<>> ELSE RContract) \o k,
                        v |-> dbValue(accounts, k)] : k \in K}
             /\ rpend \in FRequestsFor(accounts, full,
                                        FKeys(accounts) \cup {<<18, 0, 0, 0>>})
             /\ rt = hideSlots(full, full, rpend)
    /\ rparams = <<>>
    /\ rpool = hasherPool
    /\ rwalk = <<>>
    /\ rerr = "nil"
    /\ WIdle /\ HIdle /\ AIdle /\ OIdle

\* tr.finishPreviousKey(nil) once MultiWalk is through the bucket
FlushCall ==
    /\ rphase = "walking" /\ rwalk = <<>> /\ tr.key_set
    /\ \E f \in {finishPreviousKey(tr, rt, <<>>)} :
          /\ tr' = f.tr
          /\ rt' = f.rt
          /\ rerr' = f.err
    /\ rphase' = "flushed"
    /\ UNCHANGED <<rdb, rpend, rparams, rwalk, rpool>>
    /\ UNCHANGED <<wvars, hvars, avars, ovars>>

FNext == AddRequest \/ ResolveWithDb \/ WalkerCall \/ FlushCall

SpecF == FInit /\ [][FNext]_vars

RFlushed == rphase = "flushed"

\* the request the walk was for
flushedRequest == tr.requests[tr.reqIndices[tr.keyIdx + 1] + 1]

\* the node n is the subtree ref in which some branches are read through
\* their hash references: a hash reference stands for a branch of ref with
\* this hash, and everything else is ref's node for node
RECURSIVE standsFor(_, _)
standsFor(n, ref) ==
    CASE n.t = "hash" ->
            /\ ref.t \in {"duo", "full"}
            /\ hashOf(ref, FALSE, TRUE) = [len |-> HashLength, store |-> n.h]
      [] n.t = "short" ->
            /\ ref.t = "short" /\ n.Key = ref.Key
            /\ standsFor(n.Val, ref.Val)
      [] n.t = "duo" ->
            /\ ref.t = "duo" /\ n.mask = ref.mask
            /\ standsFor(n.child1, ref.child1)
            /\ standsFor(n.child2, ref.child2)
      [] n.t = "full" ->
            /\ ref.t = "full"
            /\ \A i \in 1..17 : standsFor(n.Children[i], ref.Children[i])
      [] OTHER -> n = ref

RECURSIVE branchesOf(_)
branchesOf(n) ==
    CASE n.t = "short" -> branchesOf(n.Val)
      [] n.t = "duo" -> {n} \cup branchesOf(n.child1) \cup branchesOf(n.child2)
      [] n.t = "full" -> {n} \cup UNION {branchesOf(n.Children[i]) : i \in 1..17}
      [] OTHER -> {}

\* a branch that a fold of the walk for req hashes encodes to less than 32
\* bytes: every branch of the subtree, but for the root of a request at
\* position 0, which no fold hashes
smallBranch(req) ==
    \E ref \in {rangeTrie(req)} :
        \E b \in branchesOf(ref) :
            /\ hashOf(b, FALSE, TRUE).len < HashLength
            /\ b # ref \/ req.extResolvePos > 0

finishesKey ==
    /\ rphase = "walking" /\ tr.key_set
    /\ \/ rwalk # <<>> /\ \/ Head(rwalk).keyIdx # tr.keyIdx
                          \/ Len(Head(rwalk).v) > 0
       \/ rwalk = <<>> /\ rphase' = "flushed"

\* C26: after the cursor adjustment of every finishPreviousKey call made
\* while Walker is fed an ascending stream of keys, rhIndexGt is the
\* smallest index of resolveHexes whose hex is greater than the hex of the
\* key being finished (the length when there is none) and rhIndexLte the
\* largest index whose hex is not greater (-1 when there is none);
\* rhIndexLte = rhIndexGt - 1 in every state, and no index ever decreases.
C26_CursorsBracketKey ==
    /\ [](rphase # "idle" => tr.rhIndexLte = tr.rhIndexGt - 1)
    /\ [][/\ finishesKey =>
               \A hex \in {keybytesToHex(tr.key)} :
                 /\ tr'.resolveHexes = tr.resolveHexes
                 /\ \A j \in 1..Len(tr.resolveHexes) :
                       (j <= tr'.rhIndexGt)
                          <=> (Compare(tr.resolveHexes[j], hex) <= 0)
                 /\ tr'.rhIndexGt \in 0..Len(tr.resolveHexes)
                 /\ tr'.rhIndexLte = tr'.rhIndexGt - 1
          /\ rphase = "walking" =>
                /\ tr'.rhIndexGt >= tr.rhIndexGt
                /\ tr'.rhIndexLte >= tr.rhIndexLte
         ]_vars

\* three hexes to resolve: the cursors have passed two of them and stand
\* before the third, and the pending key lies above the second
C26_Witness ==
    /\ rphase = "walking" /\ tr.key_set
    /\ Len(tr.resolveHexes) = 3
    /\ tr.rhIndexGt = 2 /\ tr.rhIndexLte = 1
    /\ Compare(tr.resolveHexes[2], keybytesToHex(tr.key)) < 0

\* the hexes of all the requests made, each with its contract in front
wholeResolveSet ==
    {keyNibbles(req.contract) \o req.resolveHex :
        req \in {tr.requests[i] : i \in 1..Len(tr.requests)}}

\* a key of the whole resolve set shares with the keys below path at least
\* the nibbles of path
onResolvingPath(path) == \E h \in wholeResolveSet : HasPrefix(h, path)

\* the branch at path, folded at level Len(path) - 1, is kept in place of
\* its hash
keptAt(path) == onResolvingPath(path) \/ (tr.hashes /\ Len(path) - 1 = 5)

\* in the subtree n found at path every branch below is stored as the rule
\* says: as a hash reference where it is not kept, as a duo or full node
\* where it is
RECURSIVE foldedByRule(_, _)
foldedByRule(n, path) ==
    LET below(c, p) ==
            /\ c.t = "hash" => ~keptAt(p)
            /\ c.t \in {"duo", "full"} => keptAt(p)
            /\ foldedByRule(c, p)
    IN CASE n.t = "short" ->
               LET key == compactToHex(n.Key)
               IN below(n.Val, path \o (IF Last(key) = 16 THEN Front(key) ELSE key))
         [] n.t = "duo" ->
               /\ below(n.child1, path \o <<childrenIdx(n)[1]>>)
               /\ below(n.child2, path \o <<childrenIdx(n)[2]>>)
         [] n.t = "full" ->
               \A i \in 1..17 : below(n.Children[i], path \o <<i - 1>>)
         [] OTHER -> TRUE

\* the children folded so far for the pending key, each with its path
foldedChildren ==
    LET hex == keybytesToHex(tr.key)
    IN {[n |-> tr.vertical[l][i], path |-> Take(hex, l) \o <<i - 1>>] :
           <<l, i>> \in {x \in (0..(Len(hex) - 1)) \X (1..17) :
                           tr.vertical[x[1]][x[2]] # nilNode}}

\* C23: a fold of a level with two children or more at level L stores a
\* hash reference in the parent exactly when no key of the whole resolve
\* set shares at least L + 1 leading nibbles with the key being finished
\* and not (hashes and L = 5); otherwise it stores the branch itself.  The
\* answer the two cursor neighbours give is the answer of the whole set for
\* every key of the stream: checked on every child a fold has stored and
\* on every resolved root.
C23_HashUnlessKept ==
    (rphase \in {"walking", "flushed", "returned"} /\ rerr # "panic") =>
        /\ tr.key_set =>
              \A c \in foldedChildren :
                  /\ c.n.t = "hash" => ~keptAt(c.path)
                  /\ c.n.t \in {"duo", "full"} => keptAt(c.path)
                  /\ foldedByRule(c.n, c.path)
        /\ \A i \in 1..Len(tr.requests) :
              foldedByRule(tr.requests[i].resolved,
                           Take(keyNibbles(tr.requests[i].contract)
                                   \o tr.requests[i].resolveHex,
                                tr.requests[i].extResolvePos))

\* the branches and hash references below n, each with its path
RECURSIVE placedBelow(_, _)
placedBelow(n, path) ==
    LET at(c, p) ==
            (IF c.t \in {"hash", "duo", "full"} THEN {[n |-> c, path |-> p]}
             ELSE {}) \cup placedBelow(c, p)
    IN CASE n.t = "short" ->
               LET key == compactToHex(n.Key)
               IN at(n.Val, path \o (IF Last(key) = 16 THEN Front(key) ELSE key))
         [] n.t = "duo" ->
               at(n.child1, path \o <<childrenIdx(n)[1]>>)
                  \cup at(n.child2, path \o <<childrenIdx(n)[2]>>)
         [] n.t = "full" ->
               UNION {at(n.Children[i], path \o <<i - 1>>) : i \in 1..17}
         [] OTHER -> {}

\* a flushed root holds a branch kept on a resolving path, a branch kept
\* at level 5 off every resolving path, and a hash reference
C23_Witness ==
    /\ RFlushed /\ rerr = "nil" /\ tr.hashes
    /\ \E S \in {placedBelow(flushedRequest.resolved,
                             Take(flushedRequest.resolveHex,
                                  flushedRequest.extResolvePos))} :
          /\ \E c \in S : c.n.t = "hash"
          /\ \E c \in S : c.n.t = "duo" /\ onResolvingPath(c.path)
          /\ \E c \in S : /\ c.n.t = "duo" /\ ~onResolvingPath(c.path)
                          /\ Len(c.path) = 6

\* the nodes of the subtree n, n included
RECURSIVE nodesOf(_)
nodesOf(n) ==
    {n} \cup
      CASE n.t = "short" -> nodesOf(n.Val)
        [] n.t = "duo" -> nodesOf(n.child1) \cup nodesOf(n.child2)
        [] n.t = "full" -> UNION {nodesOf(n.Children[i]) : i \in 1..17}
        [] OTHER -> {}

\* every subtree the resolver holds: the children stored by the folds, the
\* short nodes of the levels and the roots of the requests
producedNodes ==
    UNION {nodesOf(tr.vertical[l][i]) : l \in 0..Levels, i \in 1..17}
      \cup UNION {nodesOf(tr.nodeStack[l].Val) : l \in 0..Levels}
      \cup UNION {nodesOf(tr.requests[i].resolved) : i \in 1..Len(tr.requests)}

\* the short node a level with the one child c at nibble i is promoted to:
\* the nibble in front of the key of a short child, the nibble alone in
\* front of any other child
promoted(i, c) ==
    IF c.t = "short"
    THEN [Key |-> hexToCompact(<<i>> \o compactToHex(c.Key)), Val |-> c.Val]
    ELSE [Key |-> hexToCompact(<<i>>), Val |-> c]

\* C24: a level with exactly one child is promoted to a short node with
\* the transition nibble in front of the child's key; with exactly two
\* children it becomes a duo node, with more a full node; no duo or full
\* node with fewer than two children is produced.
C24_PromotionByFillCount ==
    (rphase \in {"walking", "flushed", "returned"} /\ rerr # "panic") =>
        /\ \A n \in producedNodes :
              /\ n.t = "duo" => n.child1 # nilNode /\ n.child2 # nilNode
              /\ n.t = "full" =>
                    Cardinality({i \in 1..17 : n.Children[i] # nilNode}) > 2
        /\ \A l \in 0..Levels :
              \A kids \in {{i \in 1..17 : tr.vertical[l][i] # nilNode}} :
                 /\ (rerr = "nil" /\ tr.fillCount[l] > 0) =>
                        Cardinality(kids) = tr.fillCount[l]
                 /\ (rerr = "nil" /\ tr.fillCount[l] = 1) =>
                        \A i \in kids :
                           tr.nodeStack[l] = promoted(i - 1, tr.vertical[l][i])
        /\ (RFlushed /\ rerr = "nil") =>
              \A n \in {flushedRequest.resolved} :
              \A E \in {rangeOf(flushedRequest)} :
              \A heads \in {{keyNibbles(e.k)[flushedRequest.extResolvePos + 1] :
                               e \in E}} :
                 /\ Cardinality(heads) = 1 <=> n.t = "short"
                 /\ Cardinality(heads) = 2 <=> n.t = "duo"
                 /\ Cardinality(heads) > 2 <=> n.t = "full"

\* roots of all three kinds were produced: a flushed full node of three
\* children that holds a short node promoted from one child and a duo node
C24_Witness ==
    /\ RFlushed /\ rerr = "nil"
    /\ flushedRequest.resolved.t = "full"
    /\ \E n \in nodesOf(flushedRequest.resolved) : n.t = "duo"
    /\ \E n \in nodesOf(flushedRequest.resolved) :
          n.t = "short" /\ n.Val.t = "duo" /\ Len(compactToHex(n.Key)) > 1

\* the short nodes the resolver holds: those of producedNodes and the
\* short node of every level in use
producedShorts ==
    {n \in producedNodes : n.t = "short"}
      \cup {shortNode(tr.nodeStack[l].Key, tr.nodeStack[l].Val) :
               l \in {l \in 0..Levels : tr.fillCount[l] > 0}}

\* C25: every short node produced has a non-empty key, and its value is
\* never itself a short node.
C25_ShortKeyNonEmptyValueNotShort ==
    (rphase \in {"walking", "flushed", "returned"} /\ rerr # "panic") =>
        \A n \in producedShorts :
            /\ n.Key # <<>>
            /\ compactToHex(n.Key) # <<>>
            /\ n.Val.t # "value" => compactToHex(n.Key)[1] # 16
            /\ n.Val.t \notin {"short", "nil"}

\* a flushed root holds a leaf whose key is the transition nibble in front
\* of the key it had one level up, and a short node in front of a branch
C25_Witness ==
    /\ RFlushed /\ rerr = "nil"
    /\ \E n \in nodesOf(flushedRequest.resolved) :
          n.t = "short" /\ n.Val.t = "value" /\ Len(compactToHex(n.Key)) > 2
    /\ \E n \in nodesOf(flushedRequest.resolved) :
          n.t = "short" /\ n.Val.t \in {"duo", "hash"}

(***************************************************************************)
(* The splice at the end of finishPreviousKey on its own: any parent, any  *)
(* content of the slot, any last resolve nibble                            *)
(***************************************************************************)
SHashA == hashNode(wrongHash)
SHashB == hashNode(Keccak(RStr(<<1>>)))
SLeaf == shortNode(hexToCompact(<<3, 16>>), valueNode(ShortValue))
SRoots == {shortNode(hexToCompact(<<5, 16>>), valueNode(LongValue)),
           duoNode(2, 3, SLeaf, SHashB)}
SSlots == {SHashA, SHashB, SLeaf}
SNibbles == {1, 4, 7}

\* the parents a request may name: a short, a duo and a full node
SParents ==
    {shortNode(hexToCompact(<<1>>), c) : c \in SSlots}
      \cup {duoNode(1, 4, c[1], c[2]) : c \in SSlots \X SSlots}
      \cup {fullNode([i \in 1..17 |->
                        IF i = 2 THEN c[1] ELSE IF i = 5 THEN c[2]
                        ELSE IF i = 8 THEN SLeaf ELSE nilNode]) :
               c \in SSlots \X SSlots}

\* the tries: a root that is a hash reference or a leaf, a parent as the
\* root, and a parent below a short root
STries ==
    {[trie |-> n, parents |-> {}] : n \in {SHashA, SLeaf}}
      \cup {[trie |-> n, parents |-> {<<>>}] : n \in SParents}
      \cup {[trie |-> shortNode(hexToCompact(<<0>>), n), parents |-> {<<0>>}] :
              n \in {n \in SParents : n.t # "short"}}

SInit ==
    /\ rphase = "resolved"
    /\ tr = NewResolver(FALSE, TRUE)
    /\ \E x \in STries :
          /\ rt = x.trie
          /\ \E parent \in {[isNil |-> TRUE, path |-> <<>>]}
                             \cup {[isNil |-> FALSE, path |-> q] : q \in x.parents} :
             \E nibble \in SNibbles : \E root \in SRoots :
                rpend = <<[ResolveRequest(<<>>,
                              (IF parent.isNil THEN <<>> ELSE parent.path)
                                  \o <<nibble, 2, 16>>,
                              (IF parent.isNil THEN 0 ELSE Len(parent.path) + 1),
                              nilBytes, parent)
                              EXCEPT !.resolved = root]>>
    /\ rdb = {}
    /\ rparams = <<>>
    /\ rpool = hasherPool
    /\ rwalk = <<>>
    /\ rerr = "nil"
    /\ WIdle /\ HIdle /\ AIdle /\ OIdle

\* lines 339-373 of finishPreviousKey, for the request whose root was set
SpliceCall ==
    /\ rphase = "resolved"
    /\ rt' = spliceRoot(rt, Head(rpend), Head(rpend).resolved)
    /\ rphase' = "spliced"
    /\ UNCHANGED <<tr, rdb, rpend, rparams, rwalk, rerr, rpool>>
    /\ UNCHANGED <<wvars, hvars, avars, ovars>>

SNext == SpliceCall

SpecS == SInit /\ [][SNext]_vars

\* the slot the parent of req designates in trie: found is false for a duo
\* parent that has no child at the last resolve nibble
designatedSlot(trie, req) ==
    IF req.resolveParent.isNil THEN [found |-> TRUE, path |-> <<>>]
    ELSE LET parent == nodeAt(trie, req.resolveParent.path)
             idx == req.resolveHex[req.resolvePos]
         IN CASE parent.t = "short" ->
                   [found |-> TRUE,
                    path |-> req.resolveParent.path \o compactToHex(parent.Key)]
              [] parent.t = "duo" ->
                   [found |-> idx \in {childrenIdx(parent)[1], childrenIdx(parent)[2]},
                    path |-> req.resolveParent.path \o <<idx>>]
              [] OTHER ->
                   [found |-> TRUE, path |-> req.resolveParent.path \o <<idx>>]

\* C27: finalizing a request writes the resolved root into at most one
\* place of the trie, the slot its parent designates (the trie root, the
\* value of a short node, the child of a duo or full node at the last
\* resolve nibble), and only if that slot holds a hash reference; a slot
\* already materialized is left unchanged, a duo parent with no child at
\* the last resolve nibble is left unchanged, and no other slot changes.
C27_SpliceOnlyIntoHashSlot ==
    [][rphase = "resolved" =>
          \A req \in {Head(rpend)} : \A slot \in {designatedSlot(rt, req)} :
             IF slot.found /\ nodeAt(rt, slot.path).t = "hash"
             THEN /\ nodeAt(rt', slot.path) = req.resolved
                  /\ rt' = putAt(rt, slot.path, req.resolved)
             ELSE rt' = rt
      ]_vars

\* a root was written into the child of a duo parent below a short root,
\* next to a hash reference that stays
C27_Witness ==
    /\ rphase = "spliced"
    /\ rt.t = "short" /\ rt.Val.t = "duo"
    /\ rt.Val.child1.t = "hash"
    /\ rt.Val.child2 = Head(rpend).resolved

(***************************************************************************)
(* Trie.Rebuild: the accounts trie is rebuilt from its bucket by one       *)
(* request for the root, made by rebuildHashes                             *)
(***************************************************************************)
\* the roots Rebuild may find: none, the hash of the bucket's trie, a hash
\* the bucket does not give, and a root that is no hash reference
BRoots(full) ==
    {nilNode, hashNode(rootHash(full, TRUE)), hashNode(wrongHash)}
        \cup (IF full = nilNode THEN {} ELSE {full})

BInit ==
    /\ rphase = "rebuild"
    /\ \E K \in {K \in SUBSET RKeys : Cardinality(K) <= MaxDbKeys} :
          /\ rdb = {[k |-> k, v |-> dbValue(TRUE, k)] : k \in K}
          /\ rt \in BRoots(fullTrieOf(TRUE, K))
    /\ tr = NewResolver(TRUE, TRUE)
    /\ rpend = <<>>
    /\ rparams = <<>>
    /\ rpool = hasherPool
    /\ rwalk = <<>>
    /\ rerr = "nil"
    /\ WIdle /\ HIdle /\ AIdle /\ OIdle

\* Rebuild up to the call of AddRequest in rebuildHashes: it returns nil
\* for no root, panics for a root that is no hash reference, and makes the
\* request for the root with the root's hash as the hash expected
RebuildCall ==
    /\ rphase = "rebuild"
    /\ IF rt = nilNode
       THEN rphase' = "rebuilt" /\ UNCHANGED <<rpend, rerr>>
       ELSE IF rt.t # "hash"
       THEN rphase' = "panicked" /\ rerr' = "panic" /\ UNCHANGED rpend
       ELSE /\ rphase' = "new"
            /\ rpend' = <<ResolveRequest(<<>>, keybytesToHex(<<>>), 0, rt.h,
                                         [isNil |-> TRUE, path |-> <<>>])>>
            /\ UNCHANGED rerr
    /\ UNCHANGED <<tr, rt, rdb, rparams, rwalk, rpool>>
    /\ UNCHANGED <<wvars, hvars, avars, ovars>>

\* what rebuildHashes returns when ResolveWithDb gave no error: the root
\* resolved for the request, and the hash it was given as expected
rebuildHashesReturns(r) ==
    [root |-> r.requests[1].resolved, roothash |-> r.requests[1].resolveHash]

\* Rebuild from the return of ResolveWithDb: an error is a panic; the root
\* is taken when the hash returned equals n, the hash reference Rebuild
\* found in t.root and gave to rebuildHashes
RebuildReturns ==
    /\ rphase = "returned"
    /\ IF rerr # "nil"
       THEN rphase' = "panicked" /\ rt' = rt
       ELSE \E res \in {rebuildHashesReturns(tr)} :
            \E n \in {tr.requests[1].resolveHash} :
               /\ rphase' = "rebuilt"
               /\ rt' = IF res.roothash = n THEN res.root ELSE rt
    /\ UNCHANGED <<tr, rdb, rpend, rparams, rwalk, rerr, rpool>>
    /\ UNCHANGED <<wvars, hvars, avars, ovars>>

BNext == RebuildCall \/ RNext \/ RebuildReturns

SpecB == BInit /\ [][BNext]_vars

\* C30: Rebuild replaces t.root with the tree rebuilt from the bucket only
\* if that tree was built and its hash is the original root hash; in every
\* other case without a panic (nothing rebuilt, hashes differ) t.root
\* keeps its original hash reference.
C30_RebuildKeepsOrVerifies ==
    (rphase = "rebuilt" /\ tr.requests # <<>>) =>
        \A n \in {tr.requests[1].resolveHash} :
            \/ rt = hashNode(n)
            \/ /\ rt.t \in {"short", "duo", "full"}
               /\ hashOf(rt, TRUE, TRUE).store = n

\* level l of the resolver r holds nothing: no count, no child, no short
\* key and no value
levelEmpty(r, l) ==
    /\ r.fillCount[l] = 0
    /\ r.vertical[l] = emptyChildren
    /\ r.nodeStack[l] = emptyShort

\* C31: after every Walker call on an ascending key stream within a
\* request, for every level l the counter fillCount[l] is the number of
\* non-nil children of vertical[l] and is at most 16, and every level above
\* tr.startLevel is empty; after a request has been finalized all levels
\* are empty, so nothing of one request leaks into the next.
C31_LevelsCountedAndCleared ==
    /\ []((rphase = "walking" /\ rerr = "nil") =>
            \A l \in 0..Levels :
               /\ tr.fillCount[l] =
                     Cardinality({i \in 1..17 : tr.vertical[l][i] # nilNode})
               /\ tr.fillCount[l] <= 16
               /\ l > tr.startLevel => levelEmpty(tr, l))
    /\ [][(rphase = "walking" /\ rerr' = "nil"
             /\ \E i \in 1..Len(tr.requests) : resolvedWritten(i))
            => \A l \in 0..Levels : levelEmpty(tr', l)
         ]_vars

\* a request with two keys in its range has been finalized and the first
\* key of the next request is pending: the levels its keys filled are empty
C31_Witness ==
    /\ rphase = "walking" /\ rerr = "nil" /\ tr.key_set
    /\ tr.keyIdx = 1
    /\ tr.requests[tr.reqIndices[1] + 1].resolved # nilNode
    /\ Cardinality(rangeOf(tr.requests[tr.reqIndices[1] + 1])) >= 2
    /\ \A l \in 0..Levels : levelEmpty(tr, l)

\* the request the walker is at
currentRequest == tr.requests[tr.reqIndices[tr.keyIdx + 1] + 1]

\* C32: a request for which PrepareResolveParams emitted a start key but
\* whose range delivers no key with a non-empty value is never finalized:
\* no error is returned for it, req.resolved stays nil and its slot keeps
\* what it held; the "Resolve returned nil root" branch is never taken,
\* because finalization runs only after a key of the request was recorded.
C32_EmptyRangeNeverFinalized ==
    /\ rerr # "Resolve returned nil root"
    /\ rphase \in {"walking", "returned"} =>
          /\ \A req \in emittedRequests : rangeOf(req) = {} =>
                /\ req.resolved = nilNode
                /\ nodeAt(rt, Take(req.resolveHex, req.resolvePos)) =
                      nodeAt(originalTrie, Take(req.resolveHex, req.resolvePos))
          /\ rerr # "nil" => rangeOf(currentRequest) # {}
          /\ tr.key_set => rangeOf(currentRequest) # {}

\* ResolveWithDb has returned nil and a request with a hash for its slot,
\* in whose range the bucket has only a deleted key, is as it was
C32_Witness ==
    /\ RReturned /\ rerr = "nil"
    /\ \E req \in emittedRequests :
          /\ rangeOf(req) = {}
          /\ req.resolveHash # nilBytes
          /\ req.resolved = nilNode
          /\ nodeAt(rt, Take(req.resolveHex, req.resolvePos)).t = "hash"

\* the hexes AddRequest appended, one for each request made
addedHexes ==
    {(IF req.contract = <<>> THEN <<>>
      ELSE Take(keybytesToHex(req.contract), 2 * AddrLen)) \o req.resolveHex :
        req \in {tr.requests[i] : i \in 1..Len(tr.requests)}}

\* some hex of the set shares its first level + 1 nibbles with the key
sharesBeyond(hexes, hex, level) ==
    \E h \in hexes : prefixLen(hex, h) >= level + 1

\* the hexes of the keys a walk can deliver
walkedHexes ==
    {c \o keybytesToHex(k) :
        c \in {<<>>, keyNibbles(RContract)}, k \in RKeys}

(***************************************************************************)
(* PrepareResolveParams on its own: any requests, nested ones included     *)
(***************************************************************************)
PContracts == {<<>>, RContract}
PKeys == {<<0, 0, 0, 0>>, <<16, 0, 0, 0>>, <<18, 0, 0, 0>>}
PPositions == {0, 1, 2}

\* the hexes requests are made with: the hex of each key, and a hex of two
\* nibbles that is a prefix of the hexes of two of the keys
PHexes == {keybytesToHex(k) : k \in PKeys} \cup {<<1, 0>>}

PRequests ==
    {ResolveRequest(c, hex, pos, nilBytes, [isNil |-> TRUE, path |-> <<>>]) :
        c \in PContracts, hex \in PHexes, pos \in PPositions}

PInit ==
    /\ rphase = "new"
    /\ tr = NewResolver(FALSE, FALSE)
    /\ rt = nilNode
    /\ rdb = {}
    /\ rpend \in UNION {[1..n -> PRequests] : n \in 0..MaxRequests}
    /\ rparams = <<>>
    /\ rpool = hasherPool
    /\ rwalk = <<>>
    /\ rerr = "nil"
    /\ WIdle /\ HIdle /\ AIdle /\ OIdle

\* tr.PrepareResolveParams() called once the requests are added
PrepareResolveParamsCall ==
    /\ rphase = "new" /\ rpend = <<>>
    /\ \E p \in {PrepareResolveParams(tr)} :
          /\ tr' = p.tr
          /\ rparams' = [startkeys |-> p.startkeys, fixedbits |-> p.fixedbits]
    /\ rphase' = "prepared"
    /\ UNCHANGED <<rt, rdb, rpend, rwalk, rerr, rpool>>
    /\ UNCHANGED <<wvars, hvars, avars, ovars>>

PNext == AddRequest \/ PrepareResolveParamsCall

SpecP == PInit /\ [][PNext]_vars

prefixOf(req) == Take(req.resolveHex, req.resolvePos)

\* request a lies in the range of request b: same contract, and the prefix
\* of a extends the prefix of b or is equal to it
containedIn(a, b) ==
    a.contract = b.contract /\ HasPrefix(prefixOf(a), prefixOf(b))

strictlyContainedIn(a, b) ==
    containedIn(a, b) /\ Len(prefixOf(a)) > Len(prefixOf(b))

\* how often the request (contract, resolveHex, resolvePos) of x is in q
timesIn(q, x) ==
    Cardinality({i \in 1..Len(q) :
        <<q[i].contract, q[i].resolveHex, q[i].resolvePos>> =
            <<x.contract, x.resolveHex, x.resolvePos>>})

\* what PrepareResolveParams has to leave and return when the requests
\* with their index in E are the ones that get a pair
preparedFor(E) ==
    LET q == tr'.requests
        at(j) == q[tr'.reqIndices[j] + 1]
    IN /\ Len(q) = Len(tr.requests)
       /\ \A i \in 1..Len(q) : timesIn(q, q[i]) = timesIn(tr.requests, q[i])
       /\ \A i, j \in 1..Len(q) : i < j =>
             LET c == Compare(q[i].contract, q[j].contract)
             IN c < 0 \/ (c = 0 /\ Compare(prefixOf(q[i]), prefixOf(q[j])) <= 0)
       /\ Len(tr'.reqIndices) = Cardinality(E)
       /\ Len(rparams'.startkeys) = Cardinality(E)
       /\ Len(rparams'.fixedbits) = Cardinality(E)
       /\ \A j \in 1..Len(tr'.reqIndices) :
             /\ tr'.reqIndices[j] + 1 \in E
             /\ j > 1 => tr'.reqIndices[j - 1] < tr'.reqIndices[j]
             /\ Len(rparams'.startkeys[j]) = Len(at(j).contract) + KeyLen
             /\ HasPrefix(keyNibbles(rparams'.startkeys[j]),
                          keyNibbles(at(j).contract) \o prefixOf(at(j)))
             /\ \A x \in (2 * Len(at(j).contract) + at(j).resolvePos + 1)
                           ..(2 * Len(rparams'.startkeys[j])) :
                   keyNibbles(rparams'.startkeys[j])[x] = 0
             /\ rparams'.fixedbits[j] =
                   4 * (2 * Len(at(j).contract) + at(j).resolvePos)
       /\ \A i \in 1..Len(q) :
             \E j \in 1..Len(tr'.reqIndices) : containedIn(q[i], at(j))

prepares == rphase = "new" /\ rphase' = "prepared"

VKey1 == <<0, 0, 0, 0>>
VKey2 == <<16, 0, 0, 0>>

VAccounts ==
    [Nonce : {0, 1, 300},
     Balance : {bigInt(0), bigInt(1), bigInt(300), bigInt(70000)},
     Root : {emptyRootBytes, SomeRootBytes},
     CodeHash : {slice(emptyCodeHashBytes), slice(SomeCodeHashBytes)},
     StorageSize : {nilInt, bigInt(5)}]

\* the raw values of the bucket: what Encode gives with and without the
\* storage size, a single byte that is not 192, and bytes that are no
\* {nonce, balance}
VRawValues ==
    {AccountEncode(a, e).enc : a \in VAccounts, e \in BOOLEAN}
        \cup {<<5>>, <<193, 1>>, <<130, 1, 2>>}

VInit ==
    /\ rphase = "new"
    /\ tr = NewResolver(FALSE, TRUE)
    /\ \E v \in VRawValues :
       \E full \in {compactKeys(buildTrie(
                       {[k |-> keyNibbles(VKey1),
                         v |-> valueNode(IF normalizeValue(tr, v).ok
                                         THEN normalizeValue(tr, v).value ELSE v)],
                        [k |-> keyNibbles(VKey2),
                         v |-> valueNode(normalizeValue(tr, <<192>>).value)]}, 0))} :
          /\ rdb = {[k |-> VKey1, v |-> v], [k |-> VKey2, v |-> <<192>>]}
          /\ rpend = <<requestFor(TRUE, full, VKey1, 0, "right")>>
          /\ rt = hideSlots(full, full, rpend)
    /\ rparams = <<>>
    /\ rpool = hasherPool
    /\ rwalk = <<>>
    /\ rerr = "nil"
    /\ WIdle /\ HIdle /\ AIdle /\ OIdle

SpecV == VInit /\ [][RNext]_vars

\* Walker is called in an accounts resolver with a non-empty raw value and
\* records it
recordsValue ==
    /\ rphase = "walking" /\ rwalk # <<>> /\ tr.accounts
    /\ Len(Head(rwalk).v) > 0 /\ rerr' = "nil"

\* b is the canonical encoding of four fields
\* [nonce, balance, storage root, code hash]
fourFields(b) ==
    LET d == decodeFields(b, 4)
    IN /\ d.err = "nil" /\ Len(d.acc.CodeHash.b) = 32
       /\ b = EncodeAccount(d.acc.Nonce, d.acc.Balance.n, d.acc.Root,
                            d.acc.CodeHash.b)

\* what is recorded for a raw value shorter than 60 bytes
shortValueRecorded ==
    LET v == Head(rwalk).v
        ext == DecodeExtAccount(v)
    IN /\ Len(v) = 1 =>
            tr'.value = EncodeAccount(0, 0, emptyRootBytes, emptyCodeHashBytes)
       /\ (1 < Len(v) /\ Len(v) < 60) =>
            /\ ext.ok
            /\ tr'.value = EncodeAccount(ext.Nonce, ext.Balance, emptyRootBytes,
                                         emptyCodeHashBytes)
       /\ Len(v) < 60 => fourFields(tr'.value)

\* C14 as stated: in an accounts resolver the value Walker records for a
\* key with a non-empty raw value is always the canonical four-field
\* account encoding, whichever of the three forms the raw value has.
C14_RecordsFourFields ==
    [][recordsValue => (shortValueRecorded /\ fourFields(tr'.value))]_vars

\* C14, amended: a raw value of one byte or shorter than 60 bytes is
\* recorded as the canonical four-field encoding; a raw value of 60 bytes
\* or more is recorded byte for byte, so it is the four-field encoding
\* exactly when the raw value is.
C14_RecordsFourFieldsOrCopy ==
    [][recordsValue =>
         /\ shortValueRecorded
         /\ Len(Head(rwalk).v) >= 60 =>
               /\ tr'.value = Head(rwalk).v
               /\ fourFields(tr'.value) <=> fourFields(Head(rwalk).v)]_vars

\* a {nonce, balance} value was recorded in its four-field form
C14_Witness ==
    /\ rphase = "walking" /\ tr.accounts /\ tr.key_set /\ tr.key = VKey1
    /\ tr.value = EncodeAccount(300, 70000, emptyRootBytes, emptyCodeHashBytes)

(***************************************************************************)
(* Encode and Decode of an account                                         *)
(***************************************************************************)
AAccounts ==
    [Nonce : {0, 1, 300},
     Balance : {nilInt, bigInt(0), bigInt(1), bigInt(300)},
     Root : {zeroRootBytes, emptyRootBytes, SomeRootBytes},
     CodeHash : {nilSlice, slice(emptyCodeHashBytes), slice(SomeCodeHashBytes)},
     StorageSize : {nilInt, bigInt(0), bigInt(5)}]

AInit ==
    /\ aphase = "new"
    /\ acct \in [a : AAccounts, enableStorageSize : BOOLEAN]
    /\ aenc = <<>>
    /\ adec = <<>>
    /\ WIdle /\ RIdle /\ HIdle /\ OIdle

\* a.Encode(enableStorageSize)
EncodeCall ==
    /\ aphase = "new"
    /\ \E e \in {AccountEncode(acct.a, acct.enableStorageSize)} :
          /\ aenc' = e
          /\ aphase' = IF e.panic THEN "panicked" ELSE "encoded"
    /\ UNCHANGED <<acct, adec>>
    /\ UNCHANGED <<wvars, rvars, hvars, ovars>>

\* new(Account).Decode(enc) of the bytes Encode returned
DecodeCall ==
    /\ aphase = "encoded"
    /\ adec' = AccountDecode(aenc.enc)
    /\ aphase' = "decoded"
    /\ UNCHANGED <<acct, aenc>>
    /\ UNCHANGED <<wvars, rvars, hvars, ovars>>

ANext == EncodeCall \/ DecodeCall

SpecA == AInit /\ [][ANext]_vars

\* the fields of a as the round trip is to give them back: a nil balance
\* is 0, a zero root the empty root, a nil code hash the empty code hash
asRead(a) ==
    [Nonce |-> a.Nonce,
     Balance |-> IF a.Balance.nil THEN 0 ELSE a.Balance.n,
     Root |-> IF a.Root = zeroRootBytes THEN emptyRootBytes ELSE a.Root,
     CodeHash |-> IF a.CodeHash.nil THEN emptyCodeHashBytes ELSE a.CodeHash.b]

\* C19: for every account a and either value of enableStorageSize,
\* a.Encode returns bytes, and decoding them yields an account with the
\* nonce, balance, storage root and code hash of a (nil balance read as 0,
\* zero root as the empty root, nil code hash as the empty code hash).
C19_EncodeDecodeRoundTrip ==
    /\ aphase # "panicked"
    /\ aphase = "decoded" =>
          /\ adec.err = "nil"
          /\ ~adec.acc.Balance.nil /\ ~adec.acc.CodeHash.nil
          /\ [Nonce |-> adec.acc.Nonce, Balance |-> adec.acc.Balance.n,
              Root |-> adec.acc.Root, CodeHash |-> adec.acc.CodeHash.b]
                = asRead(acct.a)

\* C34: for every account with a non-nil StorageSize, decoding the bytes
\* of a.Encode(true) yields an account with the same StorageSize, whatever
\* its nonce, balance, storage root and code hash are.
C34_StorageSizeRoundTrip ==
    (aphase # "idle" /\ acct.enableStorageSize /\ ~acct.a.StorageSize.nil) =>
        /\ aphase # "panicked"
        /\ aphase = "decoded" =>
              /\ adec.err = "nil"
              /\ adec.acc.StorageSize = acct.a.StorageSize

(***************************************************************************)
(* The reference trie: Trie.Update inserts one pair at a time.  Keys are   *)
(* nibble strings with the terminator, all of one length.                  *)
(***************************************************************************)
RECURSIVE insert(_, _, _)
insert(n, key, value) ==
    CASE n.t = "nil" -> shortNode(key, value)
      [] n.t = "value" -> value
      [] n.t = "short" ->
            LET m == prefixLen(key, n.Key)
                old == IF m + 1 = Len(n.Key) THEN n.Val
                       ELSE shortNode(Drop(n.Key, m + 1), n.Val)
                new == IF m + 1 = Len(key) THEN value
                       ELSE shortNode(Drop(key, m + 1), value)
                i1 == Min2(n.Key[m + 1], key[m + 1])
                i2 == Max2(n.Key[m + 1], key[m + 1])
                split == duoNode(i1, i2,
                                  IF n.Key[m + 1] = i1 THEN old ELSE new,
                                  IF n.Key[m + 1] = i1 THEN new ELSE old)
            IN IF m = Len(n.Key)
               THEN shortNode(n.Key, insert(n.Val, Drop(key, m), value))
               ELSE IF m = 0 THEN split
               ELSE shortNode(Take(key, m), split)
      [] n.t = "duo" ->
            LET ix == childrenIdx(n)
            IN IF key[1] = ix[1]
               THEN [n EXCEPT !.child1 = insert(n.child1, Tail(key), value)]
               ELSE IF key[1] = ix[2]
               THEN [n EXCEPT !.child2 = insert(n.child2, Tail(key), value)]
               ELSE fullNode([i \in 1..17 |->
                        IF i - 1 = ix[1] THEN n.child1
                        ELSE IF i - 1 = ix[2] THEN n.child2
                        ELSE IF i - 1 = key[1]
                        THEN insert(nilNode, Tail(key), value)
                        ELSE nilNode])
      [] n.t = "full" ->
            [n EXCEPT !.Children[key[1] + 1] =
                          insert(n.Children[key[1] + 1], Tail(key), value)]

\* Trie.Get on a trie whose short keys are nibble strings
RECURSIVE GetHex(_, _)
GetHex(n, hex) ==
    CASE n.t = "nil" -> [found |-> TRUE, value |-> <<>>]
      [] n.t = "hash" -> [found |-> FALSE, value |-> <<>>]
      [] n.t = "value" -> [found |-> TRUE, value |-> n.v]
      [] n.t = "short" ->
            IF HasPrefix(hex, n.Key) THEN GetHex(n.Val, Drop(hex, Len(n.Key)))
            ELSE [found |-> TRUE, value |-> <<>>]
      [] n.t = "duo" ->
            LET ix == childrenIdx(n)
            IN IF hex[1] = ix[1] THEN GetHex(n.child1, Tail(hex))
               ELSE IF hex[1] = ix[2] THEN GetHex(n.child2, Tail(hex))
               ELSE [found |-> TRUE, value |-> <<>>]
      [] n.t = "full" -> GetHex(n.Children[hex[1] + 1], Tail(hex))

(***************************************************************************)
(* The hash builder: a stack of built nodes.  An opcode of the *Hash kind  *)
(* pushes the reference of the node it builds: its hash, or the node       *)
(* itself when its encoding is shorter than 32 bytes and is inlined in     *)
(* the parent.                                                             *)
(***************************************************************************)
NewHashBuilder == [key |-> <<>>, value |-> <<>>, nodeStack |-> <<>>, underflow |-> FALSE]

\* hb.setKeyValue(skip, key, value)
setKeyValue(b, skip, key, value) ==
    [b EXCEPT !.key = Drop(keybytesToHex(key), skip), !.value = value]

\* what a *Hash opcode leaves on the stack for the node n, with every
\* embedded node counted as embedded
nodeRef_alwaysHashed(n) == hashNode(Keccak(enc(n, FALSE)))

\* what a *Hash opcode leaves on the stack for the node n
nodeRef(n) ==
    LET e == enc(n, FALSE)
    IN IF RlpLen(e) < HashLength THEN n ELSE hashNode(Keccak(e))

hbPush(b, n) == [b EXCEPT !.nodeStack = Append(@, n)]

hbLeaf(b, length, hashed) ==
    LET n == shortNode(Drop(b.key, Len(b.key) - length), valueNode(b.value))
    IN hbPush(b, IF hashed THEN nodeRef(n) ELSE n)

hbExtension(b, key, hashed) ==
    IF b.nodeStack = <<>> THEN [b EXCEPT !.underflow = TRUE]
    ELSE LET n == shortNode(key, Last(b.nodeStack))
         IN hbPush([b EXCEPT !.nodeStack = Front(@)],
                   IF hashed THEN nodeRef(n) ELSE n)

\* the set bits of a mask, ascending
RECURSIVE digitsOf(_, _)
digitsOf(mask, d) ==
    IF d > 16 THEN <<>>
    ELSE (IF Bit(mask, d) = 1 THEN <<d>> ELSE <<>>) \o digitsOf(mask, d + 1)

hbBranch(b, mask, hashed) ==
    LET digits == digitsOf(mask, 0)
        c == Len(digits)
        kids == SubSeq(b.nodeStack, Len(b.nodeStack) - c + 1, Len(b.nodeStack))
        pos(d) == CHOOSE j \in 1..c : digits[j] = d
        n == IF c = 2 THEN duoNode(digits[1], digits[2], kids[1], kids[2])
             ELSE fullNode([i \in 1..17 |->
                      IF Bit(mask, i - 1) = 1 THEN kids[pos(i - 1)] ELSE nilNode])
    IN IF c > Len(b.nodeStack) \/ c < 2 THEN [b EXCEPT !.underflow = TRUE]
       ELSE hbPush([b EXCEPT !.nodeStack = Take(@, Len(@) - c)],
                   IF hashed THEN nodeRef(n) ELSE n)

\* hb.root() and hb.rootHash()
hbRoot(b) == Last(b.nodeStack)
hbRootHash(b) == rootHash(hbRoot(b), FALSE)

\* groups with the bit of digit set at depth d (depths count from 0)
setGroup(groups, d, digit) ==
    LET g == groups \o [i \in 1..(d + 1 - Len(groups)) |-> 0]
    IN [g EXCEPT ![d + 1] = IF Bit(@, digit) = 1 THEN @ ELSE @ + 2^digit]

RECURSIVE dropEmptyGroups(_)
dropEmptyGroups(groups) ==
    IF groups # <<>> /\ Last(groups) = 0 THEN dropEmptyGroups(Front(groups))
    ELSE groups

\* the predicate handed to step: true for every prefix (TestHashBuilding),
\* or rs.HashOnly (TestResolution), on a resolve set that holds nothing
hashOnlyOf_blind(ho, prefix) == TRUE

\* the predicate handed to step: true for every prefix (TestHashBuilding),
\* or rs.HashOnly (TestResolution)
hashOnlyOf(ho, prefix) == IF ho.all THEN TRUE ELSE HashOnly(ho.rs, prefix)

\* step(hashOnly, recursive, prec, curr, succ, hb, groups); noPrec says
\* prec is nil.  The result is the groups and the builder.
RECURSIVE step(_, _, _, _, _, _, _, _)
step(ho, recursive, noPrec, prec, curr, succ, b, groups) ==
    LET precLen == prefixLen(prec, curr)
        succLen == prefixLen(succ, curr)
        maxLen == Max2(precLen, succLen)
        extraDigit == curr[maxLen + 1]
        g1 == setGroup(groups, maxLen, extraDigit)
        inGroup == Len(succ) > 0 \/ ~noPrec
        remainderStart == maxLen + (IF inGroup THEN 1 ELSE 0)
        remainderLen == Len(curr) - remainderStart
        hashed == hashOnlyOf(ho, Take(curr, maxLen))
        b1 == IF ~recursive THEN hbLeaf(b, remainderLen, hashed)
              ELSE IF remainderLen > 0
              THEN hbExtension(b, Drop(curr, remainderStart),
                               hashOnlyOf(ho, Take(curr, remainderStart)))
              ELSE b
        b2 == IF inGroup THEN hbBranch(b1, g1[maxLen + 1], hashed) ELSE b1
        g2 == dropEmptyGroups(Take(g1, maxLen))
    IN IF precLen <= succLen /\ Len(succ) > 0 THEN [groups |-> g1, hb |-> b1]
       ELSE IF precLen = 0 THEN [groups |-> Take(g1, maxLen), hb |-> b2]
       ELSE step(ho, TRUE, g2 = <<>>, Take(curr, Len(g2) - 1),
                 Take(curr, precLen), succ, b2, g2)

(***************************************************************************)
(* The driver of the structural tests: the reference trie is filled, the   *)
(* keys are fed through the window, and a last step flushes the builder    *)
(***************************************************************************)
HKeys == {<<0, 0>>, <<0, 1>>, <<0, 16>>, <<1, 0>>, <<16, 0>>, <<17, 0>>}
HAbsentKeys == {<<0, 2>>, <<32, 0>>}
MaxHKeys == 3
MaxHResolve == 2

HInputs ==
    {[keys |-> SortSeqs(K), values |-> f, ho |-> ho] :
        <<K, f, ho>> \in
            UNION {{K} \X [K -> {ShortValue, LongValue}]
                       \X ({[all |-> TRUE, rs |-> {}]} \cup
                           {[all |-> FALSE, rs |-> {keybytesToHex(k) : k \in R}] :
                               R \in {R \in SUBSET (HKeys \cup HAbsentKeys) :
                                        Cardinality(R) <= MaxHResolve}}) :
                   K \in {K \in SUBSET HKeys :
                            K # {} /\ Cardinality(K) <= MaxHKeys}}}

\* the window moved up by one key, with the terminator left off succ
shiftWindow_noTerminator(w, key) ==
    [w EXCEPT !.prec = w.curr, !.curr = w.succ, !.succ = keyNibbles(key)]

\* the window moved up by one key: prec takes curr, curr takes succ and
\* succ the nibbles of the key with the terminator (nothing after the
\* last key)
shiftWindow(w, key) ==
    [w EXCEPT !.prec = w.curr, !.curr = w.succ,
              !.succ = IF key = <<>> THEN <<>> ELSE keyNibbles(key) \o <<16>>]

HInit ==
    /\ hphase = "update"
    /\ hin \in HInputs
    /\ htr = nilNode
    /\ hi = 0
    /\ hw = [prec |-> <<>>, curr |-> <<>>, succ |-> <<>>, groups |-> <<>>]
    /\ hb = NewHashBuilder
    /\ WIdle /\ RIdle /\ AIdle /\ OIdle

\* tr.Update(key, value) for the next key
TrieUpdate ==
    /\ hphase = "update"
    /\ LET key == hin.keys[hi + 1]
       IN htr' = insert(htr, keybytesToHex(key), valueNode(hin.values[key]))
    /\ hi' = IF hi + 1 = Len(hin.keys) THEN 0 ELSE hi + 1
    /\ hphase' = IF hi + 1 = Len(hin.keys) THEN "feed" ELSE "update"
    /\ UNCHANGED <<hin, hw, hb>>
    /\ UNCHANGED <<wvars, rvars, avars, ovars>>

\* one turn of the loop over the keys: the window moves, step runs for
\* curr if there is one, and the builder is given the key and its value
FeedKey ==
    /\ hphase = "feed"
    /\ LET key == hin.keys[hi + 1]
           w == shiftWindow(hw, key)
           st == IF Len(w.curr) > 0
                 THEN step(hin.ho, FALSE, Len(w.prec) = 0, w.prec, w.curr,
                           w.succ, hb, w.groups)
                 ELSE [groups |-> w.groups, hb |-> hb]
       IN /\ hw' = [w EXCEPT !.groups = st.groups]
          /\ hb' = setKeyValue(st.hb, 0, key, hin.values[key])
    /\ hi' = hi + 1
    /\ hphase' = IF hi + 1 = Len(hin.keys) THEN "flush" ELSE "feed"
    /\ UNCHANGED <<hin, htr>>
    /\ UNCHANGED <<wvars, rvars, avars, ovars>>

\* after the loop: the window moves once more and the last step runs with
\* an empty succ
FlushStep ==
    /\ hphase = "flush"
    /\ LET w == shiftWindow(hw, <<>>)
           st == step(hin.ho, FALSE, Len(w.prec) = 0, w.prec, w.curr, w.succ,
                      hb, w.groups)
       IN /\ hw' = w
          /\ hb' = st.hb
    /\ hphase' = "done"
    /\ UNCHANGED <<hin, htr, hi>>
    /\ UNCHANGED <<wvars, rvars, avars, ovars>>

HNext == TrieUpdate \/ FeedKey \/ FlushStep

SpecHB == HInit /\ [][HNext]_vars

(***************************************************************************)
(* Claims about the hash builder                                           *)
(***************************************************************************)
HDone == hphase = "done"

\* C1: with hash_only true for every prefix, the root hash of the builder
\* after the last step is the root hash of the reference trie, and the
\* root is the one element on the stack.
C1_RootHashEqualsReference ==
    (HDone /\ hin.ho.all) =>
        /\ ~hb.underflow
        /\ Len(hb.nodeStack) = 1
        /\ hbRootHash(hb) = rootHash(htr, FALSE)

\* three keys with short and long values went through the builder
C1_Witness ==
    /\ HDone /\ hin.ho.all
    /\ Len(hin.keys) = 3
    /\ \E j, k \in DOMAIN hin.values :
          hin.values[j] = ShortValue /\ hin.values[k] = LongValue

\* C2: with hash_only = R.HashOnly, for every resolve set R of present and
\* absent keys, the root hash of the builder is the root hash of the
\* reference trie.
C2_RootHashIndependentOfResolveSet ==
    (HDone /\ ~hin.ho.all) =>
        /\ ~hb.underflow
        /\ Len(hb.nodeStack) = 1
        /\ hbRootHash(hb) = rootHash(htr, FALSE)

hasHashChild(n) ==
    CASE n.t = "duo" -> n.child1.t = "hash" \/ n.child2.t = "hash"
      [] n.t = "full" -> \E i \in 1..17 : n.Children[i].t = "hash"
      [] n.t = "short" -> n.Val.t = "hash"
      [] OTHER -> FALSE

\* a run whose resolve set holds a present and an absent key and whose
\* root is a branch that keeps one subtree and replaces another by its hash
C2_Witness ==
    /\ HDone /\ ~hin.ho.all
    /\ \E k \in hin.ho.rs : hexToKeybytes(k) \in DOMAIN hin.values
    /\ \E k \in hin.ho.rs : hexToKeybytes(k) \notin DOMAIN hin.values
    /\ hbRoot(hb).t \in {"duo", "full"}
    /\ hasHashChild(hbRoot(hb))

\* C3: in the trie whose root is hb.root() after a run with resolve set R,
\* a Get of every key of R is found (its path does not end in a hash
\* reference), and for a key of R that is in the input the value found is
\* the value fed.
C3_ResolveSetKeysFound ==
    (HDone /\ ~hin.ho.all) =>
        \A k \in hin.ho.rs :
            LET g == GetHex(hbRoot(hb), k)
                key == hexToKeybytes(k)
            IN /\ g.found
               /\ key \in DOMAIN hin.values => g.value = hin.values[key]

\* a run in which a present key of R is found with its long value, an
\* absent key of R is found without one, and a key outside R is not found
C3_Witness ==
    /\ HDone /\ ~hin.ho.all
    /\ \E k \in hin.ho.rs : GetHex(hbRoot(hb), k).value = LongValue
    /\ \E k \in hin.ho.rs : hexToKeybytes(k) \notin DOMAIN hin.values
    /\ \E key \in DOMAIN hin.values :
          ~GetHex(hbRoot(hb), keybytesToHex(key)).found

\* C33: after PrepareResolveParams, resolveHexes is strictly increasing and
\* prefix-free (no entry is a prefix of, or equal to, another), and the
\* removal of the prefix entries does not change, for any key and level,
\* whether some resolve hex shares at least level + 1 leading nibbles with
\* the key.
C33_HexesSortedPrefixFree ==
    (rphase = "prepared" /\ Len(tr.requests) > 0) =>
       LET hexes == tr.resolveHexes
       IN /\ \A i \in 1..(Len(hexes) - 1) : Compare(hexes[i], hexes[i + 1]) < 0
          /\ \A i, j \in 1..Len(hexes) : i # j => ~HasPrefix(hexes[j], hexes[i])
          /\ \A hex \in walkedHexes : \A level \in 0..Levels :
                sharesBeyond({hexes[i] : i \in 1..Len(hexes)}, hex, level)
                   <=> sharesBeyond(addedHexes, hex, level)

\* requests were made with a hex, with a hex it is a prefix of and with
\* the first hex again: one entry is left for them
C33_Witness ==
    /\ rphase = "prepared"
    /\ Len(tr.requests) = 3
    /\ Cardinality(addedHexes) = 2
    /\ \E a, b \in addedHexes : a # b /\ HasPrefix(b, a)
    /\ Len(tr.resolveHexes) = 1

(***************************************************************************)
(* The codes of a block proof: ReadCode and CreateCode record the codes    *)
(* read and created while a block runs, ExtractProofs returns the codes    *)
(* read and starts afresh.  A map from code hash to code is a set of       *)
(* [hash, code] records with one record for a hash.                        *)
(***************************************************************************)
MaxPGCalls == 5

PGHashes == {"h1", "h2"}
PGCodes == {<<96>>, <<96, 1>>}

hasCode(m, codeHash) == \E e \in m : e.hash = codeHash
putCode(m, codeHash, codeBytes) ==
    {e \in m : e.hash # codeHash} \cup {[hash |-> codeHash, code |-> codeBytes]}

\* the two maps of NewProofGenerator()
NewProofGenerator == [proofCodes |-> {}, createdCodes |-> {}]

\* mutant of ReadCode: the code is recorded whether or not it was created
ReadCode_unchecked(g, codeHash, codeBytes) ==
    [g EXCEPT !.proofCodes = putCode(@, codeHash, codeBytes)]

\* pg.ReadCode(codeHash, code)
ReadCode(g, codeHash, codeBytes) ==
    IF ~hasCode(g.createdCodes, codeHash)
    THEN [g EXCEPT !.proofCodes = putCode(@, codeHash, codeBytes)]
    ELSE g

\* pg.CreateCode(codeHash, code)
CreateCode(g, codeHash, codeBytes) ==
    IF ~hasCode(g.createdCodes, codeHash)
    THEN [g EXCEPT !.createdCodes = putCode(@, codeHash, codeBytes)]
    ELSE g

\* the orders in which a range over the map m can visit its entries
RECURSIVE rangeOrders(_)
rangeOrders(m) ==
    IF m = {} THEN {<<>>}
    ELSE UNION {{<<e>> \o q : q \in rangeOrders(m \ {e})} : e \in m}

\* pg.ExtractProofs(trace), as far as the codes go: the codes of the
\* BlockProof for one order of the range over proofCodes, and the
\* generator afterwards
ExtractProofs(g, order) ==
    [codes |-> [i \in 1..Len(order) |-> order[i].code],
     pg |-> [g EXCEPT !.proofCodes = {}, !.createdCodes = {}]]

GInit ==
    /\ pg = NewProofGenerator
    /\ pglog = <<>>
    /\ pgcodes = <<>>
    /\ WIdle /\ RIdle /\ HIdle /\ AIdle /\ DIdle /\ MIdle

ReadCodeCall ==
    /\ Len(pglog) < MaxPGCalls
    /\ \E codeHash \in PGHashes, codeBytes \in PGCodes :
          /\ pg' = ReadCode(pg, codeHash, codeBytes)
          /\ pglog' = Append(pglog, [op |-> "ReadCode", hash |-> codeHash,
                                     code |-> codeBytes])
    /\ UNCHANGED pgcodes
    /\ UNCHANGED <<wvars, rvars, hvars, avars, dvars, mvars>>

CreateCodeCall ==
    /\ Len(pglog) < MaxPGCalls
    /\ \E codeHash \in PGHashes, codeBytes \in PGCodes :
          /\ pg' = CreateCode(pg, codeHash, codeBytes)
          /\ pglog' = Append(pglog, [op |-> "CreateCode", hash |-> codeHash,
                                     code |-> codeBytes])
    /\ UNCHANGED pgcodes
    /\ UNCHANGED <<wvars, rvars, hvars, avars, dvars, mvars>>

ExtractProofsCall ==
    /\ Len(pglog) < MaxPGCalls
    /\ \E order \in rangeOrders(pg.proofCodes) :
       \E x \in {ExtractProofs(pg, order)} :
          /\ pgcodes' = x.codes
          /\ pg' = x.pg
    /\ pglog' = Append(pglog, [op |-> "ExtractProofs", hash |-> "",
                               code |-> <<>>])
    /\ UNCHANGED <<wvars, rvars, hvars, avars, dvars, mvars>>

GNext == ReadCodeCall \/ CreateCodeCall \/ ExtractProofsCall

SpecG == GInit /\ [][GNext]_vars

\* ExtractProofs has just returned
extracted == pglog # <<>> /\ Last(pglog).op = "ExtractProofs"

\* the calls made between the previous ExtractProofs and the last call
sincePrevious ==
    {i \in 1..(Len(pglog) - 1) :
        \A j \in i..(Len(pglog) - 1) : pglog[j].op # "ExtractProofs"}

\* the calls of ReadCode for the hash made when no CreateCode for it had
\* been made since the previous ExtractProofs
readsBeforeCreate(codeHash) ==
    {i \in sincePrevious :
        /\ pglog[i].op = "ReadCode" /\ pglog[i].hash = codeHash
        /\ \A j \in sincePrevious :
              j < i => ~(pglog[j].op = "CreateCode" /\ pglog[j].hash = codeHash)}

readBeforeCreated == {h \in PGHashes : readsBeforeCreate(h) # {}}

\* the code the last of these calls gave for the hash
codeRead(codeHash) ==
    pglog[CHOOSE i \in readsBeforeCreate(codeHash) :
             \A j \in readsBeforeCreate(codeHash) : j <= i].code

\* C35: for any interleaving of ReadCode, CreateCode and ExtractProofs, the
\* codes ExtractProofs returns are, one for each hash, the codes of the
\* hashes for which ReadCode was called since the previous ExtractProofs
\* when no CreateCode for the hash had been called since then; a code
\* created first and read later is not among them; after ExtractProofs the
\* read set and the created set are both empty.
C35_CodesReadBeforeCreated ==
    extracted =>
       /\ \E f \in [1..Len(pgcodes) -> readBeforeCreated] :
             /\ \A i, j \in 1..Len(pgcodes) : i # j => f[i] # f[j]
             /\ \A h \in readBeforeCreated : \E i \in 1..Len(pgcodes) : f[i] = h
             /\ \A i \in 1..Len(pgcodes) : pgcodes[i] = codeRead(f[i])
       /\ pg.proofCodes = {} /\ pg.createdCodes = {}

\* a block proof with one code was returned after one hash was read and
\* then created and the other was created and then read
C35_Witness ==
    /\ extracted /\ Len(pglog) = 5
    /\ \E a, b \in PGHashes :
          /\ a # b
          /\ pglog[1].op = "ReadCode" /\ pglog[1].hash = a
          /\ pglog[2].op = "CreateCode" /\ pglog[2].hash = a
          /\ pglog[3].op = "CreateCode" /\ pglog[3].hash = b
          /\ pglog[4].op = "ReadCode" /\ pglog[4].hash = b
          /\ pgcodes = <<pglog[1].code>>

(***************************************************************************)
(* DoCall: a context with a timeout is made, a goroutine waits for the     *)
(* context to be done and cancels the EVM, the message is applied, and the *)
(* deferred cancel runs when DoCall returns.  The timer and the caller's   *)
(* context can close Done at any moment.                                    *)
(***************************************************************************)
\* the returns DoCall makes before the context exists, "none" when it
\* makes none of them
DEarly == {"none", "GetBlockNumber", "can't get the state", "block not found",
           "both 'state' and 'stateDiff'"}
\* what core.ApplyMessage returns
DResults == {"result1", "result2", "result3"}
DErrors == {"nil", "ApplyMessage error"}

noResult == [result |-> "nil", err |-> "nil", cancelled |-> FALSE]

\* what ctx.Err() gives once Done is closed
Canceled == "context canceled"
DeadlineExceeded == "context deadline exceeded"

\* the caller's context: Done open, or closed with one of the two errors
DParents ==
    {[created |-> FALSE, done |-> FALSE, err |-> "nil"]}
        \cup {[created |-> FALSE, done |-> TRUE, err |-> e] :
                  e \in {Canceled, DeadlineExceeded}}

\* context.WithTimeout(ctx, callTimeout): Done is closed from the start,
\* with the parent's error, when the parent's is
WithTimeout(parent) == [parent EXCEPT !.created = TRUE]

\* mutant of cancel: the deferred call leaves Done open
cancel_leavesOpen(c) == c

\* cancel(): Done is closed, with the error Canceled if it was open
cancel(c) == IF c.done THEN c ELSE [c EXCEPT !.done = TRUE, !.err = Canceled]

\* mutant of afterApplyMessage: the abort flag is not looked at
afterApplyMessage_unchecked(applied, cancelled) ==
    IF applied.err # "nil"
    THEN [result |-> "nil", err |-> applied.err, cancelled |-> FALSE]
    ELSE [result |-> applied.result, err |-> "nil", cancelled |-> cancelled]

\* lines 112-121: what DoCall returns once ApplyMessage has returned, where
\* cancelled is what evm.Cancelled() gives when it is called
afterApplyMessage(applied, cancelled) ==
    IF applied.err # "nil"
    THEN [result |-> "nil", err |-> applied.err, cancelled |-> FALSE]
    ELSE IF cancelled
    THEN [result |-> "nil", err |-> "execution aborted", cancelled |-> TRUE]
    ELSE [result |-> applied.result, err |-> "nil", cancelled |-> FALSE]

DInit ==
    /\ dpc = "entered"
    /\ dctx \in DParents
    /\ dwatch = "none"
    /\ devm = [abort |-> FALSE]
    /\ dapplied = noResult
    /\ dret = noResult
    /\ WIdle /\ RIdle /\ HIdle /\ AIdle /\ GIdle /\ MIdle

\* lines 35-81: the block number, the state, the header and the overrides;
\* each of the four can end the call
Prepare ==
    /\ dpc = "entered"
    /\ \E early \in DEarly :
          IF early = "none"
          THEN dpc' = "prepared" /\ UNCHANGED dret
          ELSE /\ dpc' = "returned"
               /\ dret' = [result |-> "nil", err |-> early, cancelled |-> FALSE]
    /\ UNCHANGED <<dctx, dwatch, devm, dapplied>>
    /\ UNCHANGED <<wvars, rvars, hvars, avars, gvars, mvars>>

\* lines 85-102: the context with its deferred cancel, and the EVM
MakeContext ==
    /\ dpc = "prepared"
    /\ dctx' = WithTimeout(dctx)
    /\ devm' = [abort |-> FALSE]
    /\ dpc' = "evm"
    /\ UNCHANGED <<dwatch, dapplied, dret>>
    /\ UNCHANGED <<wvars, rvars, hvars, avars, gvars, mvars>>

\* lines 106-109: go func() { <-ctx.Done(); evm.Cancel() }()
GoWatcher ==
    /\ dpc = "evm"
    /\ dwatch' = "waiting"
    /\ dpc' = "applying"
    /\ UNCHANGED <<dctx, devm, dapplied, dret>>
    /\ UNCHANGED <<wvars, rvars, hvars, avars, gvars, mvars>>

\* lines 111-112: core.ApplyMessage(evm, msg, gp) returns
ApplyMessage ==
    /\ dpc = "applying"
    /\ \E res \in DResults, e \in DErrors :
          dapplied' = [result |-> IF e = "nil" THEN res ELSE "nil", err |-> e,
                       cancelled |-> FALSE]
    /\ dpc' = "applied"
    /\ UNCHANGED <<dctx, dwatch, devm, dret>>
    /\ UNCHANGED <<wvars, rvars, hvars, avars, gvars, mvars>>

\* lines 113-121: the error of ApplyMessage, or evm.Cancelled(), decides
\* what is returned
ChooseReturn ==
    /\ dpc = "applied"
    /\ dret' = afterApplyMessage(dapplied, devm.abort)
    /\ dpc' = "returning"
    /\ UNCHANGED <<dctx, dwatch, devm, dapplied>>
    /\ UNCHANGED <<wvars, rvars, hvars, avars, gvars, mvars>>

\* line 95: the deferred cancel() runs and DoCall has returned
DoCallReturns ==
    /\ dpc = "returning"
    /\ dctx' = cancel(dctx)
    /\ dpc' = "returned"
    /\ UNCHANGED <<dwatch, devm, dapplied, dret>>
    /\ UNCHANGED <<wvars, rvars, hvars, avars, gvars, mvars>>

\* the timer of callTimeout fires, or the caller's context is done
ContextDone ==
    /\ dctx.created /\ ~dctx.done
    /\ \E e \in {Canceled, DeadlineExceeded} :
          dctx' = [dctx EXCEPT !.done = TRUE, !.err = e]
    /\ UNCHANGED <<dpc, dwatch, devm, dapplied, dret>>
    /\ UNCHANGED <<wvars, rvars, hvars, avars, gvars, mvars>>

\* line 107: <-ctx.Done() returns
WatcherWakes ==
    /\ dwatch = "waiting" /\ dctx.done
    /\ dwatch' = "woken"
    /\ UNCHANGED <<dpc, dctx, devm, dapplied, dret>>
    /\ UNCHANGED <<wvars, rvars, hvars, avars, gvars, mvars>>

\* line 108: evm.Cancel(), and the goroutine ends
WatcherCancels ==
    /\ dwatch = "woken"
    /\ devm' = [devm EXCEPT !.abort = TRUE]
    /\ dwatch' = "done"
    /\ UNCHANGED <<dpc, dctx, dapplied, dret>>
    /\ UNCHANGED <<wvars, rvars, hvars, avars, gvars, mvars>>

DoCallSteps ==
    Prepare \/ MakeContext \/ GoWatcher \/ ApplyMessage \/ ChooseReturn
        \/ DoCallReturns

DNext == DoCallSteps \/ ContextDone \/ WatcherWakes \/ WatcherCancels

SpecD == DInit /\ [][DNext]_vars

\* the goroutine of DoCall and the goroutine it starts are both scheduled,
\* and ApplyMessage returns; nothing is assumed of the timer
SpecDFair ==
    /\ SpecD
    /\ WF_vars(DoCallSteps) /\ WF_vars(WatcherWakes) /\ WF_vars(WatcherCancels)

\* C37: on every return path after the timeout context was created (an
\* error of ApplyMessage, a cancelled execution, a normal result) the
\* context is cancelled, so the goroutine waiting on ctx.Done() always
\* wakes, calls evm.Cancel() and ends; no goroutine DoCall started stays
\* blocked after DoCall has returned.
C37_WatcherAlwaysEnds ==
    /\ []((dpc = "returned" /\ dctx.created) => dctx.done)
    /\ (dwatch = "waiting") ~> (dwatch = "done" /\ devm.abort)
    /\ [](dpc = "returned" => <>(dwatch \in {"none", "done"}))

\* DoCall has returned a result, the deferred cancel closed Done, and the
\* goroutine has been woken by it and has ended
C37_Witness ==
    /\ dpc = "returned" /\ dret.err = "nil" /\ dret.result \in DResults
    /\ dctx.err = Canceled
    /\ dwatch = "done" /\ devm.abort

\* C38: DoCall never returns the result of an execution it saw cancelled:
\* when evm.Cancelled() is true after ApplyMessage returned without an
\* error, DoCall returns a nil result and an "execution aborted" error.
C38_NoResultWhenCancelled ==
    /\ []((dpc \in {"returning", "returned"} /\ dret.cancelled) =>
             (dret.result = "nil" /\ dret.err = "execution aborted"))
    /\ []((dpc \in {"returning", "returned"} /\ dret.result # "nil") =>
             (dapplied.err = "nil" /\ dret.result = dapplied.result
                /\ dret.err = "nil"))
    /\ [][(dpc = "applied" /\ dpc' = "returning" /\ dapplied.err = "nil"
             /\ devm.abort) => dret'.cancelled]_vars

\* ApplyMessage returned a result without an error, the EVM was cancelled
\* by then, and DoCall has returned the error
C38_Witness ==
    /\ dpc = "returned" /\ dret.cancelled
    /\ dapplied.err = "nil" /\ dapplied.result \in DResults
    /\ dret.err = "execution aborted"

(***************************************************************************)
(* Amending a proof against a trie and applying the amended proof to it.   *)
(* A proof is four slices: masks, short keys, values and hashes.  A leaf   *)
(* is a short node that ends at MLeafLen nibbles, where the code has 65;   *)
(* indices count from 0 as in the code.                                    *)
(***************************************************************************)
MKeys == {<<0, 0>>, <<0, 1>>, <<1, 0>>, <<2, 0>>}
MNibbles == {0, 1}
MLeafLen == Len(CHOOSE k \in MKeys : TRUE) + 1

noProof == [masks |-> <<>>, shortKeys |-> <<>>, values |-> <<>>, hashes |-> <<>>]

joinProofs(a, b) ==
    [masks |-> a.masks \o b.masks, shortKeys |-> a.shortKeys \o b.shortKeys,
     values |-> a.values \o b.values, hashes |-> a.hashes \o b.hashes]

proofHash(hex) == Keccak(RStr(hex))
proofValue(hex) == <<7>> \o hex

\* the proofs constructFullNode and constructShortNode read a node at hex
\* from: a full node with a hash, a full node, a short node or nothing at
\* each nibble, a short node with a value, a hash or a full node below
RECURSIVE fullProofs(_)
RECURSIVE shortProofs(_)
childProofs(hex) ==
    {[kind |-> "none", p |-> noProof],
     [kind |-> "hash", p |-> [noProof EXCEPT !.hashes = <<proofHash(hex)>>]]}
       \cup {[kind |-> "full", p |-> x] :
                x \in IF Len(hex) < MLeafLen - 1 THEN fullProofs(hex) ELSE {}}
       \cup {[kind |-> "short", p |-> x] :
                x \in IF Len(hex) < MLeafLen THEN shortProofs(hex) ELSE {}}

fullProofs(hex) ==
    LET maskOf(kind, c0, c1) ==
            (IF c0.kind = kind THEN 1 ELSE 0) + (IF c1.kind = kind THEN 2 ELSE 0)
        own(c) == IF c.kind = "hash" THEN c.p ELSE noProof
        below(c) == IF c.kind = "hash" THEN noProof ELSE c.p
    IN {joinProofs(
           [noProof EXCEPT !.masks = <<maskOf("hash", c0, c1),
                                       maskOf("full", c0, c1),
                                       maskOf("short", c0, c1)>>],
           joinProofs(joinProofs(own(c0), own(c1)),
                      joinProofs(below(c0), below(c1)))) :
          c0 \in childProofs(hex \o <<0>>), c1 \in childProofs(hex \o <<1>>)}

\* the short keys a short node at hex can have
shortKeysAt(hex) ==
    LET room == MLeafLen - Len(hex)
        RECURSIVE nibbleSeqs(_)
        nibbleSeqs(n) ==
            IF n = 0 THEN {<<>>}
            ELSE {<<x>> \o q : x \in MNibbles, q \in nibbleSeqs(n - 1)}
    IN UNION {nibbleSeqs(n) : n \in 1..(room - 1)}
         \cup {q \o <<16>> : q \in nibbleSeqs(room - 1)}

shortProofs(hex) ==
    UNION {
        IF Len(hex) + Len(nKey) = MLeafLen
        THEN {[noProof EXCEPT !.masks = <<downmask>>, !.shortKeys = <<nKey>>,
                              !.values = <<proofValue(hex \o nKey)>>] :
                 downmask \in {0, 1}}
        ELSE {[noProof EXCEPT !.masks = <<0>>, !.shortKeys = <<nKey>>,
                              !.hashes = <<proofHash(hex \o nKey)>>]}
               \cup {joinProofs([noProof EXCEPT !.masks = <<1>>,
                                                !.shortKeys = <<nKey>>], x) :
                        x \in fullProofs(hex \o nKey)} :
        nKey \in shortKeysAt(hex)}

\* a proof from its first mask on: 0 for a full node at the root
MProofs ==
    {joinProofs([noProof EXCEPT !.masks = <<0>>], x) : x \in fullProofs(<<>>)}
      \cup {joinProofs([noProof EXCEPT !.masks = <<1>>], x) : x \in shortProofs(<<>>)}

\* the tries of some of the keys, and the same with the first child of the
\* root branch replaced by its hash
MTries ==
    LET built == {trieOf({[k |-> k, v |-> valueNode(proofValue(k \o <<16>>))] :
                             k \in K}).root : K \in SUBSET MKeys}
        hidden(n) == CASE n.t = "duo" -> [n EXCEPT !.child1 = hashNode(proofHash(<<>>))]
                       [] n.t = "full" ->
                            fullNode([i \in 1..17 |->
                               IF i = 1 /\ n.Children[1] # nilNode
                               THEN hashNode(proofHash(<<0>>)) ELSE n.Children[i]])
                       [] OTHER -> n
    IN built \cup {hidden(n) : n \in built}

\* d.fullCopy(), and the children of a full node
fullCopy(n) ==
    IF n.t = "full" THEN n.Children
    ELSE LET ix == childrenIdx(n)
         IN [i \in 1..17 |-> IF i - 1 = ix[1] THEN n.child1
                             ELSE IF i - 1 = ix[2] THEN n.child2
                             ELSE nilNode]

nibblesOf(mask) == {n \in 0..15 : Bit(mask, n) = 1}

\* the bits of mask that are not in other
maskWithout(mask, other) ==
    SumSeq([i \in 1..16 |->
              IF Bit(mask, i - 1) = 1 /\ Bit(other, i - 1) = 0 THEN 2^(i - 1) ELSE 0])

\* mutant of amendedHashes: the hashes are kept for a node the trie has
amendedHashes_always(ok, read) == read

\* lines 1196-1206 of ammendFullNode: the hashes of a node go to the
\* amended proof when the trie does not have the node
amendedHashes(ok, read) == IF ok THEN <<>> ELSE read

RECURSIVE ammendFullNode(_, _, _, _, _)
RECURSIVE ammendShortNode(_, _, _, _, _)
RECURSIVE ammendChildren(_, _, _, _, _, _, _, _, _)

\* the second loop of ammendFullNode from nibble on
ammendChildren(old, f, ok, hex, P, fullnodemask, shortnodemask, nibble, st) ==
    IF nibble > 15 THEN st
    ELSE LET child == IF ok THEN f[nibble + 1] ELSE nilNode
         IN CHOOSE r \in
               {ammendChildren(old, f, ok, hex, P, fullnodemask, shortnodemask,
                               nibble + 1, s1) :
                  s1 \in {IF Bit(fullnodemask, nibble) = 1
                          THEN ammendFullNode(old, child, hex \o <<nibble>>, P, st)
                          ELSE IF Bit(shortnodemask, nibble) = 1
                          THEN ammendShortNode(old, child, hex \o <<nibble>>, P, st)
                          ELSE st}} : TRUE

\* ammendFullNode for the node n of the trie at hex; old holds the hexes
\* for which timeFunc is below cuttime
ammendFullNode(old, n, hex, P, st) ==
    LET hashmask == P.masks[st.maskIdx + 1]
        fullnodemask == P.masks[st.maskIdx + 2]
        shortnodemask == P.masks[st.maskIdx + 3]
        aHashMaxIdx == Len(st.aMasks) + 1
        ok == n.t \in {"full", "duo"} /\ hex \notin old
        f == IF ok THEN fullCopy(n) ELSE emptyChildren
        count == Cardinality(nibblesOf(hashmask))
        read == SubSeq(P.hashes, st.hashIdx + 1, st.hashIdx + count)
        kept == amendedHashes(ok, read)
    IN CHOOSE r \in
          {[s2 EXCEPT !.aMasks[aHashMaxIdx] = IF ok THEN 0 ELSE hashmask,
                      !.aMasks[aHashMaxIdx + 1] = fullnodemask,
                      !.aMasks[aHashMaxIdx + 2] =
                          maskWithout(shortnodemask, fullnodemask)] :
             s2 \in {ammendChildren(old, f, ok, hex, P, fullnodemask,
                                    shortnodemask, 0, s1) :
                s1 \in {[st EXCEPT !.maskIdx = @ + 3,
                                   !.hashIdx = @ + count,
                                   !.aMasks = @ \o <<0, 0, 0>>,
                                   !.aHashes = @ \o kept]}}} : TRUE

\* ammendShortNode for the node n of the trie at hex
ammendShortNode(old, n, hex, P, st) ==
    LET pos == Len(hex)
        downmask == P.masks[st.maskIdx + 1]
        nKey == P.shortKeys[st.shortIdx + 1]
        ok == n.t = "short"
        st1 == [st EXCEPT !.maskIdx = @ + 1, !.shortIdx = @ + 1]
    IN IF pos + Len(nKey) = MLeafLen
       THEN IF ~ok
            THEN [st1 EXCEPT !.valueIdx = @ + 1,
                             !.aMasks = Append(@, 2),
                             !.aShortKeys = Append(@, nKey),
                             !.aValues = Append(@, P.values[st.valueIdx + 1])]
            ELSE [st1 EXCEPT !.valueIdx = @ + 1, !.aMasks = Append(@, 3)]
       ELSE IF downmask = 0
       THEN IF ~ok
            THEN [st1 EXCEPT !.hashIdx = @ + 1,
                             !.aMasks = Append(@, 4),
                             !.aShortKeys = Append(@, nKey),
                             !.aHashes = Append(@, P.hashes[st.hashIdx + 1])]
            ELSE [st1 EXCEPT !.hashIdx = @ + 1, !.aMasks = Append(@, 5)]
       ELSE CHOOSE r \in
               {ammendFullNode(old, IF ok THEN n.Val ELSE nilNode,
                               hex \o nKey, P, s2) :
                  s2 \in {IF ~ok
                          THEN [st1 EXCEPT !.aMasks = Append(@, 6),
                                           !.aShortKeys = Append(@, nKey)]
                          ELSE [st1 EXCEPT !.aMasks = Append(@, 7)]}} : TRUE

\* t.AmmendProofs(timeFunc, cuttime, masks, shortKeys, values, hashes, nil,
\* nil, nil, nil, trace): the four indices and the amended proof
AmmendProofs(old, root, P) ==
    LET firstMask == P.masks[1]
        start == [maskIdx |-> 1, hashIdx |-> 0, shortIdx |-> 0, valueIdx |-> 0,
                  aMasks |-> <<firstMask>>, aShortKeys |-> <<>>,
                  aValues |-> <<>>, aHashes |-> <<>>]
    IN IF firstMask = 0 THEN ammendFullNode(old, root, <<>>, P, start)
       ELSE ammendShortNode(old, root, <<>>, P, start)

\* s[idx] of the code, none when idx is past the end
readAt(s, idx, none) == IF idx < Len(s) THEN s[idx + 1] ELSE none

RECURSIVE applyFullNode(_, _, _, _)
RECURSIVE applyShortNode(_, _, _, _)
RECURSIVE applyChildren(_, _, _, _, _, _, _, _)

\* the second loop of applyFullNode from nibble on: the children of f
\* afterwards, and the indices
applyChildren(f, ok, hex, A, fullnodemask, shortnodemask, nibble, st) ==
    IF nibble > 15 THEN [node |-> f, st |-> st]
    ELSE LET child == IF ok THEN f[nibble + 1] ELSE nilNode
         IN CHOOSE r \in
               {applyChildren([f EXCEPT ![nibble + 1] = x.node], ok, hex, A,
                              fullnodemask, shortnodemask, nibble + 1, x.st) :
                  x \in {IF Bit(fullnodemask, nibble) = 1
                         THEN applyFullNode(child, hex \o <<nibble>>, A, st)
                         ELSE IF Bit(shortnodemask, nibble) = 1
                         THEN applyShortNode(child, hex \o <<nibble>>, A, st)
                         ELSE [node |-> f[nibble + 1], st |-> st]}} : TRUE

\* applyFullNode for the node n of the trie at hex: the full node returned
\* and the indices; past is set when an index ran past the end of a slice
applyFullNode(n, hex, A, st) ==
    LET hashmask == readAt(A.masks, st.maskIdx, 0)
        fullnodemask == readAt(A.masks, st.maskIdx + 1, 0)
        shortnodemask == readAt(A.masks, st.maskIdx + 2, 0)
        ok == n.t \in {"full", "duo"}
        count == Cardinality(nibblesOf(hashmask))
        rank(nibble) == Cardinality({m \in nibblesOf(hashmask) : m < nibble})
        f == IF ok THEN fullCopy(n)
             ELSE [i \in 1..17 |->
                     IF i <= 16 /\ Bit(hashmask, i - 1) = 1
                     THEN hashNode(readAt(A.hashes, st.hashIdx + rank(i - 1), nilBytes))
                     ELSE nilNode]
    IN CHOOSE r \in
          {[node |-> fullNode(x.node), st |-> x.st] :
             x \in {applyChildren(f, ok, hex, A, fullnodemask, shortnodemask, 0, s1) :
                s1 \in {[st EXCEPT !.maskIdx = @ + 3,
                                   !.hashIdx = @ + count,
                                   !.past = @ \/ st.maskIdx + 3 > Len(A.masks)
                                              \/ st.hashIdx + count > Len(A.hashes)]}}} : TRUE

\* applyShortNode for the node n of the trie at hex: the short node
\* returned (nilNode for a nil *shortNode) and the indices; missing is set
\* when s.Val is asked of a nil s
applyShortNode(n, hex, A, st) ==
    LET pos == Len(hex)
        downmask == readAt(A.masks, st.maskIdx, 0)
        ok == n.t = "short"
        readsKey == downmask <= 1 \/ downmask \in {2, 4, 6}
        nKey == IF readsKey THEN readAt(A.shortKeys, st.shortIdx, <<>>) ELSE <<>>
        s == IF ok THEN n
             ELSE IF readsKey THEN shortNode(nKey, nilNode) ELSE nilNode
        st1 == [st EXCEPT !.maskIdx = @ + 1,
                          !.shortIdx = IF readsKey THEN @ + 1 ELSE @,
                          !.past = @ \/ st.maskIdx >= Len(A.masks)
                                     \/ (readsKey /\ st.shortIdx >= Len(A.shortKeys))]
        withValue ==
            [node |-> [s EXCEPT !.Val = valueNode(readAt(A.values, st.valueIdx, <<>>))],
             st |-> [st1 EXCEPT !.valueIdx = @ + 1,
                                !.past = @ \/ st.valueIdx >= Len(A.values)]]
        withHash ==
            [node |-> [s EXCEPT !.Val = hashNode(readAt(A.hashes, st.hashIdx, nilBytes))],
             st |-> [st1 EXCEPT !.hashIdx = @ + 1,
                                !.past = @ \/ st.hashIdx >= Len(A.hashes)]]
        withFull(val, path) ==
            CHOOSE r \in
               {[node |-> [s EXCEPT !.Val = x.node], st |-> x.st] :
                  x \in {applyFullNode(val, path, A, s1) : s1 \in {st1}}} : TRUE
    IN CASE downmask = 0 ->
               IF pos + Len(nKey) = MLeafLen THEN withValue ELSE withHash
         [] downmask = 1 ->
               IF pos + Len(nKey) = MLeafLen THEN withValue
               ELSE withFull(s.Val, hex \o nKey)
         [] downmask = 2 -> withValue
         [] downmask = 4 -> withHash
         [] downmask = 6 -> withFull(nilNode, hex \o nKey)
         [] downmask = 7 ->
               IF s = nilNode
               THEN [node |-> nilNode, st |-> [st1 EXCEPT !.missing = TRUE]]
               ELSE withFull(s.Val, hex \o s.Key)
         [] OTHER -> [node |-> s, st |-> st1]

\* t.ApplyProof(ctime, masks, shortKeys, values, hashes, trace): t.root
\* afterwards, and the four indices
ApplyProof(root, A) ==
    LET firstMask == A.masks[1]
        start == [maskIdx |-> 1, hashIdx |-> 0, shortIdx |-> 0, valueIdx |-> 0,
                  past |-> FALSE, missing |-> FALSE]
    IN IF Len(A.masks) = 1 THEN [node |-> root, st |-> start]
       ELSE IF firstMask = 0 THEN applyFullNode(root, <<>>, A, start)
       ELSE applyShortNode(root, <<>>, A, start)

\* the amended proof as the four slices ApplyProof is given
amendedProof(a) ==
    [masks |-> a.aMasks, shortKeys |-> a.aShortKeys, values |-> a.aValues,
     hashes |-> a.aHashes]

MInit ==
    /\ mphase = "new"
    /\ mtrie \in MTries
    /\ mproof \in [proof : MProofs, old : {{}, {<<>>}}]
    /\ mamended = <<>>
    /\ mapplied = <<>>
    /\ WIdle /\ RIdle /\ HIdle /\ AIdle /\ GIdle /\ DIdle

AmmendProofsCall ==
    /\ mphase = "new"
    /\ mamended' = AmmendProofs(mproof.old, mtrie, mproof.proof)
    /\ mphase' = "amended"
    /\ UNCHANGED <<mtrie, mproof, mapplied>>
    /\ UNCHANGED <<wvars, rvars, hvars, avars, gvars, dvars>>

ApplyProofCall ==
    /\ mphase = "amended"
    /\ \E x \in {ApplyProof(mtrie, amendedProof(mamended))} :
          /\ mtrie' = x.node
          /\ mapplied' = x.st
    /\ mphase' = "applied"
    /\ UNCHANGED <<mproof, mamended>>
    /\ UNCHANGED <<wvars, rvars, hvars, avars, gvars, dvars>>

MNext == AmmendProofsCall \/ ApplyProofCall

SpecM == MInit /\ [][MNext]_vars

\* C36: for every trie t and every proof P whose short-node masks are 0 or
\* 1, ApplyProof on t with the amended proof AmmendProofs(t, P) returned
\* consumes the amended proof exactly: the four indices returned are the
\* lengths of the amended masks, short keys, values and hashes, no index
\* runs past the end of a slice, and no short node is dereferenced that t
\* does not have.
C36_AmendedProofConsumed ==
    mphase = "applied" =>
       /\ mapplied.maskIdx = Len(mamended.aMasks)
       /\ mapplied.shortIdx = Len(mamended.aShortKeys)
       /\ mapplied.valueIdx = Len(mamended.aValues)
       /\ mapplied.hashIdx = Len(mamended.aHashes)
       /\ ~mapplied.past
       /\ ~mapplied.missing

\* an amended proof was applied that keeps a short node of the trie and
\* goes on below it (mask 7) and brings a leaf with its value and a hash
\* the trie lacks
C36_Witness ==
    /\ mphase = "applied"
    /\ \E i \in 2..Len(mamended.aMasks) : mamended.aMasks[i] = 7
    /\ mamended.aValues # <<>> /\ mamended.aHashes # <<>>
    /\ mapplied.valueIdx = Len(mamended.aValues)
    /\ mapplied.hashIdx = Len(mamended.aHashes)

====
